---- MODULE Spec2Model ----
(***************************************************************************)
(* A model of the ia2 frame loop, its segmented video sink (FfmpegProxy),  *)
(* the element-driven render helpers and the session context managers.    *)
(*                                                                         *)
(* Objects of the program are records whose fields keep the names of the   *)
(* source; methods are operators from a record to the record after the     *)
(* call.  External processes and files (the encoder's input streams, the   *)
(* files combine_parts touches) are fields of the environment the calls    *)
(* act on.                                                                 *)
(***************************************************************************)
EXTENDS Integers, Sequences, FiniteSets, TLC

VARIABLES
    proxy,      \* the FfmpegProxy object and the encoder processes it started
    fs,         \* files and external commands of the sink's finalization
    written,    \* history: every frame passed to FfmpegProxy.write, in call order
    stops,      \* history: number of stop_process calls made by the caller
    anim,       \* the session object handed to the caller (ia2.types)
    gen,        \* the frames(anim, time) generator the caller iterates
    ret,        \* the last call the caller made: its arguments and result
    elements,   \* the element collection handed to the render helpers
    el,         \* the generator behind each element
    rf,         \* the render_frames / render_elements call in progress
    rh,         \* history of the render calls: passes, steps, outcomes
    sess,       \* the session scope (context manager) the caller is in
    seq,        \* the audio Sequence being mixed into, and the call made on it
    view,       \* the view-ordered list being iterated, and what it yielded
    imp,        \* the load_wav_file call: the file read and what came back
    cr,         \* the drawing context and surface the draw helpers act on
    enc,        \* the encoder process of the sink and its two pipes
    dflt        \* the default-argument objects of the interactive managers

sinkVars == <<proxy, fs, written, stops>>
frameVars == <<anim, gen, ret>>
renderVars == <<elements, el, rf, rh>>
libVars == <<seq, view>>
moreVars == <<imp, cr, enc, dflt>>

vars == <<proxy, fs, written, stops, anim, gen, ret, elements, el, rf, rh, sess,
          seq, view, imp, cr, enc, dflt>>

-----------------------------------------------------------------------------
(* Bounds of the model *)

MaxCap == 3         \* frame caps 1..MaxCap are explored (the program uses 3600)
MaxWrites == 6      \* frames written in one behaviour
MaxStops == 2       \* stop_process calls made by the caller in one behaviour
MaxFps == 2         \* frame rates 1..MaxFps
TimeDen == 3        \* durations are counted in units of 1/TimeDen second
MaxTime == 5        \* the durations of the calls of one behaviour sum to MaxTime units at most
MaxEvents == 1      \* input events delivered in one behaviour
MaxElems == 2       \* elements 1..MaxElems, in collections of MaxElems entries at most
MaxPass == 2        \* passes over the collection, and calls making none, in one behaviour

-----------------------------------------------------------------------------
(* Helpers *)

Range(s) == {s[i] : i \in 1..Len(s)}

RECURSIVE Flatten(_)
Flatten(ss) == IF ss = <<>> THEN <<>> ELSE Head(ss) \o Flatten(Tail(ss))

\* ceil(n / c) for n >= 0, c > 0
CeilDiv(n, c) == (n + c - 1) \div c

-----------------------------------------------------------------------------
(* FfmpegProxy: the segmented video sink (context.py) *)

None == -1          \* Python's None (writing_process; a call that returns nothing)
NoFile == -1        \* self.filename before the first start_process

\* FfmpegProxy.__init__; part files are named by their part number.
\* stdin[i] is what was written to the input stream of the encoder of
\* parts[i]; waited lists the encoders that were closed and waited for; log
\* counts the appends to ffmpeg.log.
FfmpegProxy(cap) ==
    [final_filename |-> "output_video.mp4",
     part_number |-> 0,
     writing_process |-> None,
     max_frames |-> cap,
     frame_count |-> 0,
     parts |-> <<>>,
     filename |-> NoFile,
     stdin |-> <<>>,
     waited |-> <<>>,
     log |-> 0]

start_process(p) ==
    [p EXCEPT !.filename = p.part_number,
              !.parts = Append(@, p.part_number),
              !.part_number = @ + 1,
              !.writing_process = Len(p.parts) + 1,   \* the process is named by its index in parts
              !.stdin = Append(@, <<>>),
              !.frame_count = 0]

\* the plausible slip: no test for an active encoder
stop_process_Unguarded(p) ==
    [p EXCEPT !.waited = Append(@, p.writing_process),
              !.log = @ + 1,
              !.writing_process = None]

stop_process(p) ==
    IF p.writing_process # None
    THEN [p EXCEPT !.waited = Append(@, p.writing_process),
                   !.log = @ + 1,
                   !.writing_process = None]
    ELSE p

\* the plausible slip: the frame that triggers the rollover is written to
\* nothing (the restart happens, the write does not)
write_DropOnRollover(p, data) ==
    LET p1 == [p EXCEPT !.frame_count = @ + 1]
    IN  IF p1.frame_count > p1.max_frames
        THEN start_process(stop_process(p1))
        ELSE LET p3 == IF p1.writing_process = None THEN start_process(p1) ELSE p1
             IN  [p3 EXCEPT !.stdin[p3.writing_process] = Append(@, data)]

write(p, data) ==
    LET p1 == [p EXCEPT !.frame_count = @ + 1]
        p2 == IF p1.frame_count > p1.max_frames
              THEN start_process(stop_process(p1))
              ELSE p1
        p3 == IF p2.writing_process = None THEN start_process(p2) ELSE p2
    IN  [p3 EXCEPT !.stdin[p3.writing_process] = Append(@, data)]

\* one entry of the record of what combine_parts did
FsOp(op, src, manifest) == [op |-> op, src |-> src, manifest |-> manifest]

\* the plausible slip: any non-empty part list takes the rename path
combine_parts_RenameAny(p, f) ==
    IF Len(p.parts) = 0
    THEN [f EXCEPT !.ops = Append(@, FsOp("print", NoFile, <<>>))]
    ELSE [f EXCEPT !.files = @ \cup {p.final_filename},
                   !.ops = Append(@, FsOp("rename", p.filename, <<>>))]

combine_parts(p, f) ==
    IF Len(p.parts) = 0
    THEN [f EXCEPT !.ops = Append(@, FsOp("print", NoFile, <<>>))]
    ELSE IF Len(p.parts) = 1
    THEN [f EXCEPT !.files = @ \cup {p.final_filename},
                   !.ops = Append(@, FsOp("rename", p.filename, <<>>))]
    ELSE [f EXCEPT !.files = @ \cup {"files.txt", p.final_filename},
                   !.ops = @ \o <<FsOp("files.txt", NoFile, p.parts),
                                  FsOp("concat", NoFile, p.parts)>>]

\* the frame handed to write: its pixels, tagged with its place in the
\* history of writes so that a lost or repeated frame shows
Frame(w, px) == [n |-> Len(w) + 1, px |-> px]

\* anim.pipe.write(data) on the pair W = [p |-> the proxy, w |-> the history]
pipe_write(W, px) ==
    [p |-> write(W.p, Frame(W.w, px)), w |-> Append(W.w, Frame(W.w, px))]

NoFs == [files |-> {}, ops |-> <<>>]

-----------------------------------------------------------------------------
(* The session objects (types.py) and the frame loop (frames.py) *)

Kinds == {"Animation", "Image", "AnimationSequence", "Interactive",
          "InteractiveAnimation", "OpenGLInteractive",
          "OpenGLInteractiveAnimation"}

\* the classes whose __slots__ hold "pipe"
HasPipe(kind) == kind \in {"Animation", "AnimationSequence",
                           "InteractiveAnimation", "OpenGLInteractiveAnimation"}

\* the classes whose __slots__ hold "current_frame"
HasCursor(kind) == kind \in {"AnimationSequence", "InteractiveAnimation",
                             "OpenGLInteractiveAnimation"}

\* the classes that present frames in a window
HasDisplay(kind) == kind \in {"Interactive", "InteractiveAnimation",
                              "OpenGLInteractive", "OpenGLInteractiveAnimation"}

\* The content of the surface is one of two pictures: the background as
\* paint_background leaves it, and what the caller's drawing code makes of it.
Black == 0          \* the default bg_color (0, 0, 0), painted over the surface
Drawn == 1          \* the surface after the caller's drawing code
Pixels == {Black, Drawn}

\* A session object.  surface is the content of the cairo surface, depth
\* the number of ctx.save() not yet restored, events the input queue that
\* display_frame extends, is_closing the flag of the OpenGL window; shown
\* counts the frames presented and slept the time spent in time.sleep; did
\* lists what the last save_frame did, in order.
\* Image.__init__ fixes fps at 1.  debug is False (the default).
NewAnim(kind, fps) ==
    [kind |-> kind,
     fps |-> IF kind = "Image" THEN 1 ELSE fps,
     surface |-> Black,
     depth |-> 0,
     current_frame |-> 0,
     events |-> <<>>,
     is_closing |-> FALSE,
     shown |-> 0,
     slept |-> 0,
     did |-> <<>>]

NoAnim == NewAnim("Image", 1)

\* int(x) for the rational x = num/den, den > 0: truncation toward zero
pyint(num, den) == IF num >= 0 THEN num \div den ELSE -((-num) \div den)

\* the plausible slip: the frame count rounded up instead of truncated
frames_n_RoundUp(a, t) == (t * a.fps + TimeDen - 1) \div TimeDen

\* int(time * anim.fps) of frames(); time is t/TimeDen seconds
frames_n(a, t) == pyint(t * a.fps, TimeDen)

\* the plausible slip: an inclusive range, one write too many
wait_n_Inclusive(a, s) == pyint(s * a.fps, TimeDen) + 1

\* int(seconds * anim.fps) of wait(); seconds is s/TimeDen seconds
wait_n(a, s) == pyint(s * a.fps, TimeDen)

\* save_frame.write_frame on S = [a |-> anim, W |-> sink and history, exc]
write_frame(S) ==
    [S EXCEPT !.W = pipe_write(S.W, S.a.surface), !.a.did = Append(@, "write")]

\* save_frame.display_frame: present, poll the input queue, stop on QUIT
display_frame(S, polled) ==
    LET events == S.a.events \o polled
    IN  [S EXCEPT !.a.shown = @ + 1,
                  !.a.did = @ \o <<"display", "poll">>,
                  !.a.events = events,
                  !.exc = IF "QUIT" \in Range(events)
                          THEN "StopInteractive" ELSE "none"]

\* the plausible slip: the closing flag tested before the events of this
\* frame are processed, so that the quit takes effect one frame late
display_frame_opengl_TestBeforePoll(S, polled) ==
    [S EXCEPT !.a.shown = @ + 1,
              !.a.did = @ \o <<"display", "poll">>,
              !.a.events = @ \o polled,
              !.a.is_closing = @ \/ "QUIT" \in Range(polled),
              !.exc = IF S.a.is_closing THEN "StopInteractive" ELSE "none"]

\* save_frame.display_frame_opengl with MockWindow.process_events
display_frame_opengl(S, polled) ==
    LET closing == S.a.is_closing \/ "QUIT" \in Range(polled)
    IN  [S EXCEPT !.a.shown = @ + 1,
                  !.a.did = @ \o <<"display", "poll">>,
                  !.a.events = @ \o polled,
                  !.a.is_closing = closing,
                  !.exc = IF closing THEN "StopInteractive" ELSE "none"]

\* the plausible slip: one branch for both GPU variants, display and write
save_frame_GpuAlwaysWrites(S0, polled) ==
    LET S == [S0 EXCEPT !.a.did = <<>>]
    IN  IF S.a.kind \in {"Animation", "AnimationSequence"}
        THEN write_frame(S)
        ELSE IF S.a.kind = "Interactive"
        THEN display_frame(S, polled)
        ELSE IF S.a.kind = "InteractiveAnimation"
        THEN LET D == display_frame(S, polled)
             IN  IF D.exc = "none" THEN write_frame(D) ELSE D
        ELSE IF S.a.kind \in {"OpenGLInteractive", "OpenGLInteractiveAnimation"}
        THEN LET D == display_frame_opengl(S, polled)
             IN  IF D.exc = "none" THEN write_frame(D) ELSE D
        ELSE S

\* save_frame(anim): the isinstance chain; a raise in the display step
\* leaves the write undone
save_frame(S0, polled) ==
    LET S == [S0 EXCEPT !.a.did = <<>>]
    IN  IF S.a.kind \in {"Animation", "AnimationSequence"}
        THEN write_frame(S)
        ELSE IF S.a.kind = "Interactive"
        THEN display_frame(S, polled)
        ELSE IF S.a.kind = "InteractiveAnimation"
        THEN LET D == display_frame(S, polled)
             IN  IF D.exc = "none" THEN write_frame(D) ELSE D
        ELSE IF S.a.kind = "OpenGLInteractive"
        THEN display_frame_opengl(S, polled)
        ELSE IF S.a.kind = "OpenGLInteractiveAnimation"
        THEN LET D == display_frame_opengl(S, polled)
             IN  IF D.exc = "none" THEN write_frame(D) ELSE D
        ELSE S

\* n times anim.pipe.write(anim.surface.get_data())
RECURSIVE write_n(_, _, _)
write_n(W, px, n) == IF n <= 0 THEN W ELSE write_n(pipe_write(W, px), px, n - 1)

\* wait(anim, seconds): [W |-> sink and history, a |-> anim, val |-> result]
wait(a, W, s) ==
    IF a.kind \in {"Animation", "AnimationSequence"}
    THEN [W |-> write_n(W, a.surface, wait_n(a, s)), a |-> a, val |-> wait_n(a, s)]
    ELSE IF a.kind = "Interactive"
    THEN [W |-> W, a |-> [a EXCEPT !.slept = @ + s], val |-> None]
    ELSE IF a.kind = "InteractiveAnimation"
    THEN [W |-> write_n(W, a.surface, wait_n(a, s)),
          a |-> [a EXCEPT !.slept = @ + s], val |-> None]
    ELSE [W |-> W, a |-> a, val |-> None]

\* The generator object of frames(): pc is where it stands ("none": not
\* created, "yielded": suspended at the yield, "done": exhausted, "raised":
\* left by an exception), time its argument, n the length of its range,
\* frame the number it yielded last; yielded and saved are history: the
\* numbers yielded and the frames its save_frame calls wrote to the sink.
\* fn is the function that made it (frames, one_frame or one_frame2: the
\* three have the same loop body); cycle is the log of the steps of the turn
\* of the loop it is in, depth0 the depth of the save-point stack when that
\* turn began, last the log and the two depths of the last turn it finished,
\* dispatched the number of its save_frame calls.
NoCycle == [log |-> <<>>, d0 |-> 0, d1 |-> 0]

NoGen == [pc |-> "none", time |-> 0, n |-> 0, frame |-> 0,
          yielded |-> <<>>, saved |-> 0,
          fn |-> "none", cycle |-> <<>>, depth0 |-> 0, last |-> NoCycle,
          dispatched |-> 0]

\* The head of a turn of the loop of frames(), one_frame() and one_frame2():
\* anim.ctx.save(), paint_background(anim.ctx), and the yield
loop_head(a, log) ==
    [a |-> [a EXCEPT !.depth = @ + 1, !.surface = Black],
     log |-> log \o <<"save", "paint_background", "yield">>]

loop_tail_SaveFirst(S, polled, log) ==
    LET D == save_frame(S, polled)
    IN  [S |-> [D EXCEPT !.a.depth = @ - 1],
         log |-> log \o <<"save_frame", "restore">>]

\* The tail of the turn, run when the caller resumes the generator:
\* anim.ctx.restore(), then save_frame(anim)
loop_tail(S, polled, log) ==
    [S |-> save_frame([S EXCEPT !.a.depth = @ - 1], polled),
     log |-> log \o <<"restore", "save_frame">>]

\* The caller's last step: op names it; for a call, arg is its duration, val
\* what it returned, w0 the number of frames written before it and px the
\* surface at the call; used is the sum of the durations asked for so far.
NoCall == [op |-> "none", arg |-> 0, val |-> None, w0 |-> 0, px |-> Black, used |-> 0]

\* what the display backend can deliver at one poll of the input queue
Polls(a) ==
    IF HasDisplay(a.kind) /\ Len(a.events) < MaxEvents
    THEN {<<>>, <<"KEYDOWN">>, <<"QUIT">>}
    ELSE {<<>>}

-----------------------------------------------------------------------------
(* Animation elements and the render helpers (frames.py) *)

Elems == 1..MaxElems

\* An element is a generator.  What its body does when it is resumed is
\* the caller's code: it yields, returns (StopIteration) or raises (Error).
\* A generator that has ended raises StopIteration on every later next().
\* calls counts the invocations of next().
NewElement == [calls |-> 0, finished |-> FALSE]

Outcomes == {"yield", "StopIteration", "Error"}

\* next(element), the body doing o if it is resumed:
\* [g |-> the generator after the call, res |-> what the call did]
next(g, o) ==
    IF g.finished
    THEN [g |-> [g EXCEPT !.calls = @ + 1], res |-> "StopIteration"]
    ELSE [g |-> [g EXCEPT !.calls = @ + 1, !.finished = (o # "yield")], res |-> o]

\* one entry of the record of a pass: element e was stepped, its inv-th
\* invocation, with result res
Stepped(e, g, res) == [e |-> e, inv |-> g.calls, res |-> res]

\* the plausible slip: a handler that treats every exception of a step as
\* completion and goes on
RECURSIVE step_all_Swallow(_, _, _, _, _)
step_all_Swallow(els, list, o, i, acc) ==
    IF i > Len(list)
    THEN [el |-> els, removed |-> acc.removed, log |-> acc.log, err |-> FALSE]
    ELSE LET r == next(els[list[i]], o[i])
         IN  step_all_Swallow([els EXCEPT ![list[i]] = r.g], list, o, i + 1,
                 [removed |-> IF r.res = "yield" THEN acc.removed
                              ELSE Append(acc.removed, list[i]),
                  log |-> Append(acc.log, Stepped(list[i], r.g, r.res))])

\* list.remove(x): the list without its first entry equal to x
RECURSIVE list_remove(_, _)
list_remove(list, x) ==
    IF list = <<>> THEN <<>>
    ELSE IF Head(list) = x THEN Tail(list)
    ELSE <<Head(list)>> \o list_remove(Tail(list), x)

\* the plausible slip: a completed element is removed from the list at once,
\* while the loop's iterator stands on it, so the entry after it is passed over
RECURSIVE step_all_RemoveNow(_, _, _, _, _)
step_all_RemoveNow(els, list, o, i, acc) ==
    IF i > Len(list)
    THEN [el |-> els, removed |-> acc.removed, log |-> acc.log, err |-> FALSE]
    ELSE LET r == next(els[list[i]], o[i])
             log == Append(acc.log, Stepped(list[i], r.g, r.res))
             els2 == [els EXCEPT ![list[i]] = r.g]
         IN  IF r.res = "Error"
             THEN [el |-> els2, removed |-> acc.removed, log |-> log, err |-> TRUE]
             ELSE IF r.res = "StopIteration"
             THEN step_all_RemoveNow(els2, list_remove(list, list[i]), o, i + 1,
                     [removed |-> Append(acc.removed, list[i]), log |-> log])
             ELSE step_all_RemoveNow(els2, list, o, i + 1,
                     [removed |-> acc.removed, log |-> log])

\* for element in elements: try next(element); StopIteration is collected in
\* removed, any other exception leaves the loop and the call.  o[i] is what
\* the body of the i-th entry does if resumed; acc = [removed, log] so far;
\* the result adds err: an exception left the loop.
RECURSIVE step_all(_, _, _, _, _)
step_all(els, list, o, i, acc) ==
    IF i > Len(list)
    THEN [el |-> els, removed |-> acc.removed, log |-> acc.log, err |-> FALSE]
    ELSE LET r == next(els[list[i]], o[i])
             log == Append(acc.log, Stepped(list[i], r.g, r.res))
             els2 == [els EXCEPT ![list[i]] = r.g]
         IN  IF r.res = "Error"
             THEN [el |-> els2, removed |-> acc.removed, log |-> log, err |-> TRUE]
             ELSE step_all(els2, list, o, i + 1,
                     [removed |-> IF r.res = "StopIteration"
                                  THEN Append(acc.removed, list[i])
                                  ELSE acc.removed,
                      log |-> log])

\* the plausible slip: only the first completed element of a pass is removed
remove_all_FirstOnly(list, removed) ==
    IF removed = <<>> THEN list ELSE list_remove(list, Head(removed))

\* for element in removed: elements.remove(element)
RECURSIVE remove_all(_, _)
remove_all(list, removed) ==
    IF removed = <<>> THEN list
    ELSE remove_all(list_remove(list, Head(removed)), Tail(removed))

\* The call in progress: fn the helper, pc where it stands ("idle": no call
\* yet, "loop": in its frame loop, "returned", "raised"), n the frames of its
\* range, frame the next frame number, start_frame as render_frames reads
\* it, val what it returned.
NoRender == [fn |-> "none", pc |-> "idle", n |-> 0, frame |-> 0,
             start_frame |-> 0, val |-> None]

\* History.  pass: passes begun over the collection; present[e]: the passes
\* at whose start e was in the collection; doneAt[e]: the invocation on which
\* e first reported completion (0: not yet); late[e]: invocations of e after
\* that; aborted: an exception left a pass; elements0: the collection as the
\* caller built it; steps: every invocation, with its call; calls: per call
\* the helper, the outcome, the passes begun, the frames written, and the
\* frame in which a step raised (None: no step raised); last: the collection
\* at the start of the last pass and the record of that pass.
NoHistory(list) ==
    [pass |-> 0,
     present |-> [e \in Elems |-> {}],
     doneAt |-> [e \in Elems |-> 0],
     late |-> [e \in Elems |-> 0],
     aborted |-> FALSE,
     elements0 |-> list,
     steps |-> <<>>,
     calls |-> <<>>,
     last |-> [list |-> <<>>, log |-> <<>>]]

NewCall(fn) == [fn |-> fn, outcome |-> "open", begun |-> 0, wrote |-> 0, errAt |-> None]

\* the invocation on which e first reported completion, given a pass record
FirstDone(h, log, e) ==
    LET ends == {i \in 1..Len(log) : log[i].e = e /\ log[i].res = "StopIteration"}
    IN  IF h.doneAt[e] # 0 THEN h.doneAt[e]
        ELSE IF ends = {} THEN 0
        ELSE log[CHOOSE i \in ends : \A j \in ends : i <= j].inv

\* the history after a pass of call number c, frame number frame, over list,
\* that stepped as log records and wrote `wrote` frames
AfterPass(h, list, frame, log, wrote, outcome) ==
    LET c == Len(h.calls)
        done == [e \in Elems |-> FirstDone(h, log, e)]
    IN  [h EXCEPT
           !.pass = @ + 1,
           !.present = [e \in Elems |->
                          IF e \in Range(list) THEN @[e] \cup {h.pass + 1} ELSE @[e]],
           !.doneAt = done,
           !.late = [e \in Elems |-> @[e] + Cardinality(
                        {i \in 1..Len(log) :
                            log[i].e = e /\ done[e] # 0 /\ log[i].inv > done[e]})],
           !.aborted = @ \/ \E i \in 1..Len(log) : log[i].res = "Error",
           !.steps = @ \o [i \in 1..Len(log) |->
                             [call |-> c, frame |-> frame, e |-> log[i].e,
                              res |-> log[i].res]],
           !.last = [list |-> list, log |-> log],
           !.calls[c].begun = @ + 1,
           !.calls[c].wrote = @ + wrote,
           !.calls[c].outcome = outcome,
           !.calls[c].errAt = IF \E i \in 1..Len(log) : log[i].res = "Error"
                              THEN frame ELSE @]

\* the passes begun so far plus the calls that made none
Turns(h) ==
    h.pass + Cardinality({c \in 1..Len(h.calls) : h.calls[c].begun = 0})

NoElements == [e \in Elems |-> NewElement]

\* int(length * anim.fps) frames, one at least
render_elements_n(a, length) ==
    IF pyint(length * a.fps, TimeDen) > 1 THEN pyint(length * a.fps, TimeDen) ELSE 1

-----------------------------------------------------------------------------
(* Session scopes: the context managers of context.py *)

Managers == {"wav", "ffmpeg", "ffmpeg_wav", "pygame_interactive", "opengl_interactive"}

VideoFile == "output_video.mp4"     \* video_file_name
AudioFile == "output_audio.wav"     \* audio_file_name
WavFile == "output.wav"             \* filename of wav()
Combined == "output.mp4"            \* combined_file_name / video_output

\* the exception the manager's except clause names (wav has no except
\* clause: "none")
OwnStop(cm) ==
    IF cm \in {"ffmpeg", "ffmpeg_wav"} THEN "StopAnimation"
    ELSE IF cm = "wav" THEN "none" ELSE "StopInteractive"

\* proxy is not None: the scope owns an encoder proxy
Recording(cm, video_output) == cm \in {"ffmpeg", "ffmpeg_wav"} \/ video_output

\* data is not None: the scope owns an audio buffer
HasAudio(cm, video_output) ==
    cm \in {"wav", "ffmpeg_wav"} \/ (cm # "ffmpeg" /\ video_output)

\* the class of the session object the scope yields (with ffmpeg, the
\* Animation the caller builds around the proxy; wav yields a Sequence,
\* which has no surface: no session object)
KindOf(cm, video_output) ==
    IF cm = "wav" THEN "Image"
    ELSE IF cm = "ffmpeg" THEN "Animation"
    ELSE IF cm = "ffmpeg_wav" THEN "AnimationSequence"
    ELSE IF cm = "pygame_interactive"
    THEN (IF video_output THEN "InteractiveAnimation" ELSE "Interactive")
    ELSE (IF video_output THEN "OpenGLInteractiveAnimation" ELSE "OpenGLInteractive")

\* The audio buffer: peak is max(abs(data)) (0: silence, 1: full scale,
\* 2: above full scale); faded and saved record fade_in_out and wavfile.write;
\* max_val is the peak the finalization found, divided whether it divided
\* the buffer by it, nan whether the buffer holds NaN (0/0) since.
NoAudio == [peak |-> 0, faded |-> FALSE, saved |-> FALSE,
            max_val |-> None, divided |-> FALSE, nan |-> FALSE]

\* The scope.  pc: "out" before the with statement, "body" inside it, "exit"
\* when the body has ended with exc ("none": normally), "closed" after the
\* manager's except/finally; out is how the with statement ended; log lists
\* the steps the manager took on the way out, msgs what it printed; frames
\* counts the frame cycles of the body; filename is where the audio goes.
NoSession ==
    [cm |-> "none", video_output |-> FALSE, pc |-> "out", exc |-> "none",
     out |-> "none", log |-> <<>>, msgs |-> <<>>, audio |-> NoAudio, frames |-> 0,
     filename |-> AudioFile]

\* a step of the way out, on X = [p |-> proxy, f |-> files, s |-> scope]
Did(X, step) == [X EXCEPT !.s.log = Append(@, step)]

\* except <own stop signal>: print(...)
handle(X, text) ==
    IF X.s.exc = OwnStop(X.s.cm) THEN [X EXCEPT !.s.msgs = Append(@, text)] ELSE X

\* proxy.stop_process(); proxy.combine_parts()
finish_video(X) ==
    LET X1 == Did([X EXCEPT !.p = stop_process(X.p)], "stop_process")
    IN  Did([X1 EXCEPT !.f = combine_parts(X1.p, X1.f)], "combine_parts")

\* max_val = np.max(np.abs(data)); if max_val != 0: data /= max_val;
\* data = fade_in_out(data); wavfile.write(audio_file_name, rate, data)
finish_audio(X) ==
    LET X1 == Did([X EXCEPT !.s.audio.max_val = X.s.audio.peak,
                            !.s.audio.divided = X.s.audio.peak # 0,
                            !.s.audio.peak = IF @ # 0 THEN 1 ELSE 0], "normalize")
        X2 == Did([X1 EXCEPT !.s.audio.faded = TRUE], "fade_in_out")
    IN  Did([X2 EXCEPT !.s.audio.saved = TRUE,
                       !.f.files = @ \cup {AudioFile}], "wavfile.write")

\* if both files exist: combine(...); elif the video exists: print("Missing
\* video"); elif the audio exists: print("Missing audio")
try_mux(X) ==
    LET X1 == Did(X, "mux")
    IN  IF VideoFile \in X1.f.files /\ AudioFile \in X1.f.files
        THEN [X1 EXCEPT !.f.files = @ \cup {Combined},
                        !.s.msgs = Append(@, "combine")]
        ELSE IF VideoFile \in X1.f.files
        THEN [X1 EXCEPT !.s.msgs = Append(@, "Missing video")]
        ELSE IF AudioFile \in X1.f.files
        THEN [X1 EXCEPT !.s.msgs = Append(@, "Missing audio")]
        ELSE X1

\* the end of the generator behind the manager: an exception the except
\* clause did not name is raised again, anything else returns
leave(X) ==
    IF X.s.exc \in {"none", OwnStop(X.s.cm)}
    THEN Did([X EXCEPT !.s.out = "returned", !.s.pc = "closed"], "return")
    ELSE Did([X EXCEPT !.s.out = "raised", !.s.pc = "closed"], "raise")

\* wav: try / finally; data /= np.max(np.abs(data), axis=0) without a test
\* of the peak (0/0 is NaN in every sample); the file is the scope's filename
wav_exit(X) ==
    LET X1 == Did([X EXCEPT !.s.audio.max_val = X.s.audio.peak,
                            !.s.audio.divided = TRUE,
                            !.s.audio.nan = X.s.audio.peak = 0,
                            !.s.audio.peak = IF @ # 0 THEN 1 ELSE 0], "normalize")
        X2 == Did([X1 EXCEPT !.s.audio.faded = TRUE], "fade_in_out")
    IN  leave(Did([X2 EXCEPT !.s.audio.saved = TRUE,
                             !.f.files = @ \cup {X.s.filename}], "wavfile.write"))

\* ffmpeg: except StopAnimation / finally
ffmpeg_exit(X) == leave(finish_video(handle(X, "Stopping animation")))

\* ffmpeg_wav: except StopAnimation / finally
ffmpeg_wav_exit(X) ==
    leave(try_mux(finish_audio(finish_video(handle(X, "Stopping animation")))))

\* the finally of the two interactive managers after pygame.quit() /
\* window.close(): if proxy / if data is not None / if video_output is not None
finish_interactive(X) ==
    LET X1 == IF Recording(X.s.cm, X.s.video_output) THEN finish_video(X) ELSE X
        X2 == IF HasAudio(X.s.cm, X.s.video_output) THEN finish_audio(X1) ELSE X1
    IN  IF X.s.video_output THEN try_mux(X2) ELSE X2

\* the plausible slip: the cleanup written after the try statement instead of
\* in a finally clause, so that a foreign exception skips it
pygame_interactive_exit_NoFinally(X) ==
    IF X.s.exc \in {"none", "StopInteractive"}
    THEN leave(finish_interactive(Did(handle(X, "Stopping interactive"), "pygame.quit")))
    ELSE leave(X)

\* pygame_interactive: except StopInteractive / finally
pygame_interactive_exit(X) ==
    leave(finish_interactive(Did(handle(X, "Stopping interactive"), "pygame.quit")))

\* opengl_interactive: except StopInteractive / finally
opengl_interactive_exit(X) ==
    leave(finish_interactive(
        Did(handle(X, "Stopping OpenGL interactive"), "window.close")))

-----------------------------------------------------------------------------
(* The audio buffer compositor (ia2.audio) *)

(* A Sequence is a record with the fields of ia2.types.Sequence that the     *)
(* compositor reads.  A cell of wav_file holds the arithmetic the program    *)
(* did to compute it, as a sequence of integers in postfix form: the empty   *)
(* sequence is the 0.0 the buffer is created with, Content(i) is a value put *)
(* in cell i before the calls, and every blend or echo appends its operands  *)
(* and a mark.  Two cells are equal exactly when they were computed by the   *)
(* same arithmetic from the same operands.  List positions are Python's      *)
(* (from 0); the sequences that hold them are TLA+'s (from 1).               *)

LeadMax == 2        \* lead-in cap (the program uses 2000 samples)
MaxBuf == 6         \* cells of wav_file
MaxRate == 2        \* sample rates 1..MaxRate (samples per second)
MaxSample == 4      \* sample lengths 1..MaxSample
MaxDuration == 2    \* durations 1..MaxDuration seconds
MaxMix == 2         \* compositor calls in one behaviour
MaxCursor == 3      \* current_frame values 0..MaxCursor
Point2 == 2         \* the decay 0.2 reverb uses, in tenths

Zero == <<>>
Content(i) == <<-3, i>>

Min(a, b) == IF a < b THEN a ELSE b
Max(a, b) == IF a > b THEN a ELSE b

\* Sequence(wav_file, tempo, rate, fps): the cursor starts at frame 0
Sequence(wav_file, rate, fps) ==
    [wav_file |-> wav_file, rate |-> rate, fps |-> fps, current_frame |-> 0]

\* a sample of n values, each its own
Sample(n) == [k \in 1..n |-> k - 1]

\* list[lo:hi] for lo, hi >= 0: both ends are clamped to the list
slice(list, lo, hi) == SubSeq(list, Min(lo, Len(list)) + 1, Min(hi, Len(list)))

\* fade_in_out(signal, fade_length): an array of the same length whose value
\* at a position is the input's value scaled by the envelope there; the
\* envelope depends on the position and on the length of the array (the
\* ramps are capped at half of it)
fade_in_out(signal) == [i \in 1..Len(signal) |-> <<signal[i], i - 1, Len(signal)>>]

\* interpolate(0, weight, lead_in)[k]: step k of the sinusoidal ramp of
\* lead_in steps from 0 to weight
weight_i(weight, lead_in, k) == <<k, lead_in, weight>>

\* the constant weight of the part after the lead-in
flat(weight) == <<-1, -1, weight>>

\* value * w + old * (1 - w)
blend(old, value, w) == old \o <<-1>> \o value \o w

\* old + src * decay; adding 0.0 * decay leaves old as it is
echo(old, src, decay) == IF src = Zero THEN old ELSE old \o src \o <<-2, decay>>

\* copy_sample: the sample trimmed to rate * duration values
copy_sample(q, sample, num_samples, duration) ==
    slice(sample, 0, Min(num_samples, q.rate * duration))

\* write_lead_in: the ramp is written cell by cell; the first index outside
\* sample_copy or outside wav_file raises IndexError and leaves the cells
\* written so far.  The result carries lead_in, the function's return value.
write_lead_in(q, tnum, tden, sample_copy, num_samples, weight) ==
    LET lead_in == Min(LeadMax, num_samples \div 2)
        start == pyint(tnum * q.rate, tden)
        L == Len(q.wav_file)
        done == Max(0, Min(lead_in, Min(Len(sample_copy), L - start)))
    IN [q |-> [q EXCEPT !.wav_file =
                  [c \in 1..L |->
                     IF c - 1 \in start..(start + done - 1)
                     THEN blend(q.wav_file[c], sample_copy[c - start],
                                weight_i(weight, lead_in, c - 1 - start))
                     ELSE q.wav_file[c]]],
        exc |-> IF done < lead_in THEN "IndexError" ELSE "none",
        lead_in |-> lead_in]

\* write_sample: one slice assignment.  Both slices are clamped; the sum of
\* sample_copy[lead_in:num_samples] and the buffer's slice, and its
\* assignment to that slice, need equal lengths or a single sample value
\* (which numpy repeats); any other pair raises ValueError and writes nothing.
write_sample(q, tnum, tden, sample_copy, num_samples, weight, lead_in) ==
    LET start == pyint(tnum * q.rate, tden)
        L == Len(q.wav_file)
        src == slice(sample_copy, lead_in, num_samples)
        lo == Min(lead_in + start, L)
        hi == Max(lo, Min(num_samples + start, L))
        ok == Len(src) = hi - lo \/ Len(src) = 1
    IN [q |-> IF ok
              THEN [q EXCEPT !.wav_file =
                      [c \in 1..L |->
                         IF c - 1 \in lo..(hi - 1)
                         THEN blend(q.wav_file[c],
                                    src[IF Len(src) = hi - lo THEN c - lo ELSE 1],
                                    flat(weight))
                         ELSE q.wav_file[c]]]
              ELSE q,
        exc |-> IF ok THEN "none" ELSE "ValueError"]

\* mix_sample(seq, sample, time, weight, duration) with time = tnum / tden:
\* the sample is trimmed first, and both loops write cell by cell, so the
\* first cell outside wav_file raises IndexError after the cells before it
\* were written
mix_sample(q, sample, tnum, tden, weight, duration) ==
    LET num_samples == Min(Len(sample), q.rate * duration)
        sample_copy == fade_in_out(slice(sample, 0, num_samples))
        lead_in == Min(LeadMax, num_samples \div 2)
        start == pyint(tnum * q.rate, tden)
        L == Len(q.wav_file)
        done == Max(0, Min(num_samples, L - start))
    IN [q |-> [q EXCEPT !.wav_file =
                  [c \in 1..L |->
                     IF c - 1 \in start..(start + done - 1)
                     THEN blend(q.wav_file[c], sample_copy[c - start],
                                IF c - 1 - start < lead_in
                                THEN weight_i(weight, lead_in, c - 1 - start)
                                ELSE flat(weight))
                     ELSE q.wav_file[c]]],
        exc |-> IF done < num_samples THEN "IndexError" ELSE "none"]

\* mix_sample2(seq, sample, weight, duration): time is current_frame / fps;
\* num_samples stays the length of the whole sample and is passed as it is
\* to write_lead_in and write_sample
mix_sample2(q, sample, weight, duration) ==
    LET num_samples == Len(sample)
        sample_copy == fade_in_out(copy_sample(q, sample, num_samples, duration))
        A == write_lead_in(q, q.current_frame, q.fps, sample_copy, num_samples, weight)
        B == write_sample(A.q, q.current_frame, q.fps, sample_copy, num_samples,
                          weight, A.lead_in)
    IN IF A.exc # "none" THEN [q |-> A.q, exc |-> A.exc] ELSE B

\* reverb(seq, delay, decay) with delay in seconds: the decay passed in is
\* replaced by 0.2, and the loop updates wav_file in place in increasing i,
\* so cell i already holds its own echo when it is read for cell i + delay
RECURSIVE reverb_loop(_, _, _, _)
reverb_loop(wav_file, D, dec, i) ==
    IF i >= Len(wav_file) - D THEN wav_file
    ELSE reverb_loop([wav_file EXCEPT ![i + D + 1] = echo(@, wav_file[i + 1], dec)],
                     D, dec, i + 1)

reverb(q, delay, decay) ==
    LET D == pyint(q.rate * delay, 1)
        dec == Point2
    IN [q |-> [q EXCEPT !.wav_file = reverb_loop(q.wav_file, D, dec, 0)],
        exc |-> "none"]

NoSeq == [q |-> Sequence(<<>>, 1, 1), fn |-> "none", args |-> <<>>,
          before |-> Sequence(<<>>, 1, 1), exc |-> "none", calls |-> 0]

-----------------------------------------------------------------------------
(* The view-ordered lists (ia2.scene) *)

(* An entity is known by its payload, a number, and carries the geometry    *)
(* the list reads: a point (ZOrderList), a point set that may be None       *)
(* (ViewOrderList2, which yields the entity itself), a point set            *)
(* (ViewOrderList3) or a face of three points (ViewOrderList4).  Angles are *)
(* whole quarter turns, for which the rotation of the view vector is exact  *)
(* in integers; keys are exact rationals (the rounding of the floating      *)
(* point products is not modelled).                                         *)

MaxEnts == 3        \* entities in one list

Classes == {"ZOrderList", "ViewOrderList2", "ViewOrderList3", "ViewOrderList4"}

\* an Element as ViewOrderList2 reads it: points3d is a list of points, or
\* None (is_none)
Element(points3d) == [is_none |-> FALSE, points3d |-> points3d]
ElementNoPoints == [is_none |-> TRUE, points3d |-> <<>>]

\* the entities of each kind of list, by payload
Pool(cls) ==
    CASE cls = "ZOrderList" ->
            <<<<0, 0, 1>>, <<2, 0, 0>>, <<1, 1, 0>>, <<0, 2, 1>>>>
      [] cls = "ViewOrderList2" ->
            <<Element(<< <<0, 0, 1>> >>), Element(<< <<1, 0, 0>>, <<0, 0, 1>> >>),
              ElementNoPoints, Element(<<>>), Element(<< <<0, 1, 1>> >>)>>
      [] cls = "ViewOrderList3" ->
            <<<< <<0, 0, 1>> >>, << <<1, 0, 0>>, <<0, 0, 1>> >>, <<>>,
              << <<0, 1, 1>> >> >>
      [] OTHER ->
            <<<< <<0, 0, 0>>, <<1, 0, 0>>, <<0, 1, 0>> >>,
              << <<0, 0, 0>>, <<0, 1, 0>>, <<1, 0, 0>> >>,
              << <<0, 0, 0>>, <<0, 1, 0>>, <<0, 0, 1>> >>,
              << <<0, 0, 1>>, <<2, 0, 1>>, <<0, 2, 1>> >> >>

\* a rotation by one quarter turn back about an axis (the inverse of the
\* rotation by +90 degrees)
back(axis, v) ==
    CASE axis = "x" -> <<v[1], v[3], -v[2]>>
      [] axis = "y" -> <<-v[3], v[2], v[1]>>
      [] OTHER -> <<v[2], -v[1], v[3]>>

RECURSIVE turn_back(_, _, _)
turn_back(axis, n, v) == IF n = 0 THEN v ELSE turn_back(axis, n - 1, back(axis, v))

\* scene["x_angle"], scene["y_angle"], scene["z_angle"] by axis name
angle(scene, axis) ==
    CASE axis = "x" -> scene.x_angle
      [] axis = "y" -> scene.y_angle
      [] OTHER -> scene.z_angle

\* the axis sequence handed to Rotation.from_euler: "yxz" and "zxy" are
\* taken as named, every other rotation_order as "xyz"
euler_axes(scene) ==
    IF scene.rotation_order = "yxz" THEN <<"y", "x", "z">>
    ELSE IF scene.rotation_order = "zxy" THEN <<"z", "x", "y">>
    ELSE <<"x", "y", "z">>

\* Y = rotation_m.inv().apply([0, 0, -1]): the rotation turns about the fixed
\* axes in the order of the sequence, so its inverse undoes the last first
view_vector(scene) ==
    LET ax == euler_axes(scene)
    IN turn_back(ax[1], angle(scene, ax[1]),
         turn_back(ax[2], angle(scene, ax[2]),
           turn_back(ax[3], angle(scene, ax[3]), <<0, 0, -1>>)))

dot(X, Y) == X[1] * Y[1] + X[2] * Y[2] + X[3] * Y[3]
cross(a, b) ==
    <<a[2] * b[3] - a[3] * b[2], a[3] * b[1] - a[1] * b[3], a[1] * b[2] - a[2] * b[1]>>
minus(a, b) == <<a[1] - b[1], a[2] - b[2], a[3] - b[3]>>

RECURSIVE sum(_)
sum(s) == IF s = <<>> THEN 0 ELSE s[1] + sum(Tail(s))

\* keys: inf is -1 for -math.inf, 1 for math.inf, 0 for the number num / den
number(num, den) == [inf |-> 0, num |-> num, den |-> den]
infinity(sign) == [inf |-> sign, num |-> 0, den |-> 1]

\* a < b on keys
less(a, b) ==
    IF a.inf # 0 \/ b.inf # 0 THEN a.inf < b.inf
    ELSE a.num * b.den < b.num * a.den

\* mean([project(x) for x in points])
mean_projection(points, Y) ==
    number(sum([i \in 1..Len(points) |-> dot(points[i], Y)]), Len(points))

\* project(normal) for the unit normal of a face.  With n the cross product
\* and p its dot product with Y (of length 1 for quarter turns) the key is
\* p / |n|; it is kept as its signed square p|p| / |n|^2, which orders and
\* ties exactly as the key does.
normal_projection(points, Y) ==
    LET n == cross(minus(points[2], points[1]), minus(points[3], points[1]))
        p == dot(n, Y)
    IN number(IF p >= 0 THEN p * p ELSE -(p * p), dot(n, n))

\* the key a list of class cls computes for the entity with payload e
key_of_NoneFirst(cls, scene, e) ==
    LET g == Pool(cls)[e]
    IN CASE cls = "ZOrderList" -> number(g[3], 1)
         [] cls = "ViewOrderList2" ->
               IF g.is_none THEN infinity(-1)
               ELSE IF Len(g.points3d) = 0 THEN infinity(-1)
               ELSE mean_projection(g.points3d, view_vector(scene))
         [] cls = "ViewOrderList3" ->
               IF Len(g) = 0 THEN infinity(-1)
               ELSE mean_projection(g, view_vector(scene))
         [] OTHER -> normal_projection(g, view_vector(scene))

key_of(cls, scene, e) ==
    LET g == Pool(cls)[e]
    IN CASE cls = "ZOrderList" -> number(g[3], 1)
         [] cls = "ViewOrderList2" ->
               IF g.is_none THEN infinity(1)
               ELSE IF Len(g.points3d) = 0 THEN infinity(-1)
               ELSE mean_projection(g.points3d, view_vector(scene))
         [] cls = "ViewOrderList3" ->
               IF Len(g) = 0 THEN infinity(-1)
               ELSE mean_projection(g, view_vector(scene))
         [] OTHER -> normal_projection(g, view_vector(scene))

\* sorted(v_e, key=lambda x: x[0]) on a list of [key, e] pairs: ascending by
\* key, and pairs with equal keys stay in the order of the list
sorted_TiesReversed(v_e) ==
    LET rank(i) == Cardinality({j \in 1..Len(v_e) :
                        \/ less(v_e[j].key, v_e[i].key)
                        \/ (~less(v_e[i].key, v_e[j].key) /\ j > i)})
    IN [r \in 1..Len(v_e) |-> v_e[CHOOSE i \in 1..Len(v_e) : rank(i) = r - 1]]

sorted(v_e) ==
    LET rank(i) == Cardinality({j \in 1..Len(v_e) :
                        \/ less(v_e[j].key, v_e[i].key)
                        \/ (~less(v_e[i].key, v_e[j].key) /\ j < i)})
    IN [r \in 1..Len(v_e) |-> v_e[CHOOSE i \in 1..Len(v_e) : rank(i) = r - 1]]

\* list[start:end] for start >= 0 and end >= 0 or None
pyslice(list, start, end) ==
    slice(list, start, IF end = None THEN Len(list) ELSE end)

\* cls(elements[, scene][, start, end]): ZOrderList.__init__ has the one
\* parameter elements, so a call with a slice raises TypeError; the others
\* keep start and end (0 and None when left out)
new_list(cls, scene, els, sliced, start, end) ==
    IF cls = "ZOrderList"
    THEN [cls |-> cls, scene |-> scene, elements |-> els, start |-> 0,
          end |-> None, exc |-> IF sliced THEN "TypeError" ELSE "none"]
    ELSE [cls |-> cls, scene |-> scene, elements |-> els,
          start |-> IF sliced THEN start ELSE 0,
          end |-> IF sliced THEN end ELSE None, exc |-> "none"]

\* list(iter(l)): the keys are computed, the pairs sorted into a new list,
\* and the payloads of the slice yielded; ZOrderList yields the whole sorted
\* list.  The result is the list object after the iteration and what it
\* yielded: self.elements is read, never assigned.
iterate_InPlace(l) ==
    LET v_e == [i \in 1..Len(l.elements) |->
                   [key |-> key_of(l.cls, l.scene, l.elements[i]), e |-> l.elements[i]]]
        s == sorted(v_e)
        part == IF l.cls = "ZOrderList" THEN s ELSE pyslice(s, l.start, l.end)
    IN [l |-> [l EXCEPT !.elements = [i \in 1..Len(s) |-> s[i].e]],
        out |-> [i \in 1..Len(part) |-> part[i].e]]

iterate(l) ==
    LET v_e == [i \in 1..Len(l.elements) |->
                   [key |-> key_of(l.cls, l.scene, l.elements[i]), e |-> l.elements[i]]]
        s == sorted(v_e)
        part == IF l.cls = "ZOrderList" THEN s ELSE pyslice(s, l.start, l.end)
    IN [l |-> l, out |-> [i \in 1..Len(part) |-> part[i].e]]

NoScene == [x_angle |-> 0, y_angle |-> 0, z_angle |-> 0, rotation_order |-> "xyz"]

NoList == new_list("ZOrderList", NoScene, <<>>, FALSE, 0, None)

NoView == [cls |-> "ZOrderList", scene |-> NoScene, entities |-> {}, l |-> NoList,
           pc |-> "none", sliced |-> FALSE, start |-> 0, end |-> None, runs |-> <<>>]

-----------------------------------------------------------------------------
(* The other objects *)

\* the sample data types wavfile.read returns; load_wav_file names the first
\* five
Dtypes == {"int16", "int32", "uint8", "float32", "float64", "int64"}

\* a WAV file as wavfile.read finds it: unreadable, or sample_rate and an
\* array of n frames of one dtype, 1-D or (n, channels)
WavFiles ==
    [readable : BOOLEAN, dtype : Dtypes, ndim : {1, 2}, n : 0..MaxSample,
     sample_rate : 1..MaxRate]

\* the float32 array made of the file's array: the offset subtracted and the
\* power of two divided by, whether it was clipped to [-1, 1], and whether
\* the channels were averaged
Converted(file, log2_divisor, offset, clipped) ==
    [dtype |-> "float32", log2_divisor |-> log2_divisor, offset |-> offset,
     clipped |-> clipped, averaged |-> file.ndim = 2, n |-> file.n]

\* what a call came to: the value returned (NoValue when nothing was
\* returned), the exception that reached the caller, and the lines printed
NoValue == <<>>
Returned(val, out) == [val |-> val, exc |-> "none", out |-> out]

\* load_wav_file(filename): everything is inside try ... except Exception,
\* which prints the error and returns (None, None); that handler also
\* catches the ValueError the function raises for a dtype it does not name
load_wav_file(file) ==
    IF ~file.readable
    THEN Returned(<<None, None>>, <<"Error loading WAV file">>)
    ELSE CASE file.dtype = "int16" ->
                 Returned(<<Converted(file, 15, 0, FALSE), file.sample_rate>>,
                          <<"Loaded">>)
           [] file.dtype = "int32" ->
                 Returned(<<Converted(file, 31, 0, FALSE), file.sample_rate>>,
                          <<"Loaded">>)
           [] file.dtype = "uint8" ->
                 Returned(<<Converted(file, 7, 128, FALSE), file.sample_rate>>,
                          <<"Loaded">>)
           [] file.dtype \in {"float32", "float64"} ->
                 Returned(<<Converted(file, 0, 0, TRUE), file.sample_rate>>,
                          <<"Loaded">>)
           [] OTHER ->
                 Returned(<<None, None>>,
                          <<"Loaded", "Error loading WAV file: Unsupported audio data type">>)

NoImport == [pc |-> "none", file |-> [readable |-> FALSE, dtype |-> "int16", ndim |-> 1,
                                      n |-> 0, sample_rate |-> 1],
             val |-> NoValue, exc |-> "none", out |-> <<>>]
MaxDraws == 2       \* helper calls in one behaviour

\* The owning context of the draw helpers (an Image, Animation, ...): the
\* flags the helpers test, the cairo context (its graphics state, its
\* current path, the states pushed by save) and the surface, which holds
\* what stroke and fill painted.  calls lists every cairo call made.
Colors == {"BLUE", "RED", "WHITE"}

NewContext(construct, debug, selected, dash, source, path, saved) ==
    [construct |-> construct, debug |-> debug, selected |-> selected,
     gstate |-> [dash |-> dash, source |-> source, line_width |-> 2, matrix |-> <<>>],
     path |-> path, saved |-> saved, surface |-> <<>>, calls |-> <<>>]

called(c, name) == [c EXCEPT !.calls = Append(@, name)]

set_dash(c, dashes) == [called(c, "set_dash") EXCEPT !.gstate.dash = dashes]
set_source_rgba(c, color) == [called(c, "set_source_rgba") EXCEPT !.gstate.source = color]
set_line_width(c, width) == [called(c, "set_line_width") EXCEPT !.gstate.line_width = width]
move_to(c, at) == [called(c, "move_to") EXCEPT !.path = Append(@, <<"move_to", at>>)]
line_to(c, at) == [called(c, "line_to") EXCEPT !.path = Append(@, <<"line_to", at>>)]
arc(c, at) == [called(c, "arc") EXCEPT !.path = Append(@, <<"arc", at>>)]
curve_to(c, at) == [called(c, "curve_to") EXCEPT !.path = Append(@, <<"curve_to", at>>)]
translate(c, by) == [called(c, "translate") EXCEPT !.gstate.matrix = Append(@, <<"translate", by>>)]
rotate(c, by) == [called(c, "rotate") EXCEPT !.gstate.matrix = Append(@, <<"rotate", by>>)]

\* ctx.stroke(): the current path is painted with the graphics state and
\* cleared
stroke(c) ==
    [called(c, "stroke") EXCEPT !.surface = Append(@, [path |-> c.path, gstate |-> c.gstate]),
                               !.path = <<>>]

\* ctx.save() and ctx.restore(): the graphics state is pushed and popped;
\* the current path is not part of it
ctx_save(c) == [called(c, "save") EXCEPT !.saved = Append(@, c.gstate)]
ctx_restore(c) ==
    [called(c, "restore") EXCEPT !.gstate = c.saved[Len(c.saved)],
                                !.saved = SubSeq(c.saved, 1, Len(c.saved) - 1)]

\* draw_line(anim, p1, p2, color, width)
draw_line(c, p1, p2, color, width) ==
    stroke(line_to(move_to(set_line_width(set_source_rgba(c, color), width), p1), p2))

\* draw_path(anim, points, color, width) with no fill: the points are
\* one move_to and the line_to's after it
draw_path(c, points, color, width) ==
    stroke(set_source_rgba(line_to(move_to(set_line_width(c, width), points), points),
                           color))

dashed_or_not(c, dashed, dash) == IF dashed THEN set_dash(c, <<dash>>) ELSE c

draw_construction_line(c, p1, p2, color, width, dashed, dash) ==
    IF ~c.construct THEN c
    ELSE set_dash(stroke(line_to(move_to(set_line_width(set_source_rgba(
             dashed_or_not(c, dashed, dash), color), width), p1), p2)), <<>>)

draw_construction_circle(c, center, color, width, dashed, dash) ==
    IF ~c.construct THEN c
    ELSE set_dash(stroke(arc(set_line_width(set_source_rgba(
             dashed_or_not(c, dashed, dash), color), width), center)), <<>>)

draw_construction_ellipse(c, center, color, width, by, dashed, dash) ==
    IF ~c.construct THEN c
    ELSE ctx_restore(set_dash(draw_path(dashed_or_not(
             rotate(translate(ctx_save(c), center), by), dashed, dash),
             "ellipse", color, width), <<>>))

draw_construction_bezier_Unguarded(c, p0, p1, p2, p3, color, width, dashed, dash) ==
    LET drawn == stroke(set_line_width(dashed_or_not(set_source_rgba(
                     curve_to(move_to(c, p0), p3), color), dashed, dash), width))
        handles == IF c.debug \/ c.selected
                   THEN draw_line(draw_line(drawn, p0, p1, "RED", 2), p2, p3, "RED", 2)
                   ELSE drawn
    IN set_dash(handles, <<>>)

draw_construction_bezier(c, p0, p1, p2, p3, color, width, dashed, dash) ==
    IF ~c.construct THEN c
    ELSE LET drawn == stroke(set_line_width(dashed_or_not(set_source_rgba(
                          curve_to(move_to(c, p0), p3), color), dashed, dash), width))
             handles == IF c.debug \/ c.selected
                        THEN draw_line(draw_line(drawn, p0, p1, "RED", 2), p2, p3, "RED", 2)
                        ELSE drawn
         IN set_dash(handles, <<>>)

NoContext == [c |-> NewContext(FALSE, FALSE, FALSE, <<>>, "WHITE", <<>>, <<>>),
              fn |-> "none", before |-> NewContext(FALSE, FALSE, FALSE, <<>>, "WHITE", <<>>, <<>>),
              draws |-> 0]

\* The encoder subprocess and its two pipes (context.py, FfmpegProxy).
\* Popen(command, stdin=PIPE, stderr=PIPE): the proxy writes frames into the
\* stdin pipe and the encoder writes its diagnostics into the stderr pipe;
\* a pipe holds a bounded number of units and a write into a full pipe
\* blocks until the other end reads.
StdinCap == 2        \* frames the stdin pipe holds
StderrCap == 2       \* diagnostic lines the stderr pipe holds
MaxDiag == 3         \* diagnostic lines the encoder emits in one behaviour
MaxEncFrames == 4    \* frames the caller writes in one behaviour

\* pc: where the proxy stands ("idle": in no call, "write": blocked in
\* stdin.write, "wait": blocked in writing_process.wait()); then: what the
\* proxy does when wait() returns ("return": stop_process was the call,
\* "write": it runs inside write, at a rollover); running: writing_process is
\* not None; stdin, stderr: the units in the pipes; closed: stdin was closed;
\* blocked: the encoder is blocked in a write to stderr; exited: the encoder
\* has exited; frame_count as write counts; log: the lines in ffmpeg.log;
\* frames, emitted: history, the frames accepted and the lines emitted.
NoEncoder ==
    [pc |-> "idle", then |-> "return", running |-> FALSE,
     stdin |-> 0, closed |-> FALSE, stderr |-> 0, blocked |-> FALSE,
     exited |-> FALSE, frame_count |-> 0, log |-> 0, frames |-> 0, emitted |-> 0]

\* self.writing_process = Popen(...); self.frame_count = 0
Popen(e) ==
    [e EXCEPT !.running = TRUE, !.stdin = 0, !.closed = FALSE, !.stderr = 0,
              !.blocked = FALSE, !.exited = FALSE, !.frame_count = 0]

\* self.writing_process.stdin.write(data): returns when the pipe has room
stdin_write(e) ==
    IF e.stdin < StdinCap
    THEN [e EXCEPT !.pc = "idle", !.stdin = @ + 1, !.frames = @ + 1]
    ELSE [e EXCEPT !.pc = "write"]

\* after wait(): f.write(self.writing_process.stderr.read()) and
\* self.writing_process = None
after_wait(e) ==
    [e EXCEPT !.pc = "idle", !.log = @ + e.stderr, !.stderr = 0, !.running = FALSE]

\* self.writing_process.stdin.close(); self.writing_process.wait(): returns
\* when the encoder has exited
proxy_wait(e, cont) ==
    IF e.exited
    THEN [after_wait(e) EXCEPT !.then = cont]
    ELSE [e EXCEPT !.pc = "wait", !.then = cont]

\* FfmpegProxy.stop_process as the pipes see it, up to the point where it
\* blocks
enc_stop_process(e, cont) ==
    IF e.running THEN proxy_wait([e EXCEPT !.closed = TRUE], cont) ELSE e

\* FfmpegProxy.write from the point where the process to write to is chosen
enc_write_tail(e) ==
    stdin_write(IF e.running THEN e ELSE Popen(e))

\* FfmpegProxy.write as the pipes see it, up to the point where it blocks
enc_write(e) ==
    LET e1 == [e EXCEPT !.frame_count = @ + 1]
    IN  IF e1.frame_count > MaxCap
        THEN LET e2 == enc_stop_process(e1, "write")
             IN  IF e2.pc = "wait" THEN e2 ELSE enc_write_tail(Popen(e2))
        ELSE enc_write_tail(e1)

\* The default values of the parameter events=[] of pygame_interactive and
\* opengl_interactive: one list object per function, made when the function
\* is defined and bound to the parameter in every call that passes no list.
\* explicit: the session in progress was opened with a list of the caller's;
\* at_open: the session object's events as the manager yielded it; polled:
\* what the last frame's poll delivered; opened: sessions opened so far.
MaxSessions == 2     \* sessions opened in one behaviour

Interactives == {"pygame_interactive", "opengl_interactive"}

NoDefaults ==
    [events |-> [cm \in Interactives |-> <<>>],
     explicit |-> FALSE, at_open |-> <<>>, polled |-> <<>>, opened |-> 0]

\* the list the parameter events is bound to: the caller's new list, or the
\* function's default object
events_of(d, cm, explicit) == IF explicit THEN <<>> ELSE d.events[cm]

\* a change of the session's list seen through the default object, which is
\* the same list when the caller passed none
aliased(d, cm, events) ==
    IF d.explicit THEN d ELSE [d EXCEPT !.events[cm] = events]

-----------------------------------------------------------------------------
(* SpecSink: a caller driving one FfmpegProxy *)

InitProxy ==
    /\ \E cap \in 1..MaxCap : proxy = FfmpegProxy(cap)
    /\ fs = NoFs
    /\ written = <<>>
    /\ stops = 0

InitNoRender ==
    /\ elements = <<>>
    /\ el = NoElements
    /\ rf = NoRender
    /\ rh = NoHistory(<<>>)
    /\ sess = NoSession
    /\ seq = NoSeq
    /\ view = NoView
    /\ imp = NoImport
    /\ cr = NoContext
    /\ enc = NoEncoder
    /\ dflt = NoDefaults

InitSink ==
    /\ InitProxy
    /\ anim = NoAnim
    /\ gen = NoGen
    /\ ret = NoCall
    /\ InitNoRender

SinkWrite(d) ==
    /\ fs.ops = <<>>
    /\ Len(written) < MaxWrites
    /\ proxy' = pipe_write([p |-> proxy, w |-> written], d).p
    /\ written' = pipe_write([p |-> proxy, w |-> written], d).w
    /\ UNCHANGED <<fs, stops, frameVars, renderVars, sess, libVars, moreVars>>

SinkStop ==
    /\ fs.ops = <<>>
    /\ stops < MaxStops
    /\ proxy' = stop_process(proxy)
    /\ stops' = stops + 1
    /\ UNCHANGED <<fs, written, frameVars, renderVars, sess, libVars, moreVars>>

SinkCombine ==
    /\ fs.ops = <<>>
    /\ fs' = combine_parts(proxy, fs)
    /\ UNCHANGED <<proxy, written, stops, frameVars, renderVars, sess, libVars, moreVars>>

NextSink ==
    \/ \E d \in Pixels : SinkWrite(d)
    \/ SinkStop
    \/ SinkCombine

SpecSink == InitSink /\ [][NextSink]_vars

-----------------------------------------------------------------------------
(* SpecFrames: a caller iterating frames(anim, time), drawing, and waiting *)

InitFrames ==
    /\ \E cap \in {1, MaxCap} : proxy = FfmpegProxy(cap)
    /\ fs = NoFs
    /\ written = <<>>
    /\ stops = 0
    /\ \E kind \in Kinds, fps \in 1..MaxFps : anim = NewAnim(kind, fps)
    /\ gen = NoGen
    /\ ret = NoCall
    /\ InitNoRender

\* for frame in frames(anim, time): the call and the first next():
\* ctx.save(), paint_background with the default bg_color, yield 0; an empty
\* range ends at once
FramesStart(t) ==
    /\ gen.pc \in {"none", "done"}
    /\ ret.used + t <= MaxTime
    /\ IF frames_n(anim, t) > 0
       THEN LET H == loop_head(anim, <<>>)
            IN  /\ anim' = H.a
                /\ gen' = [NoGen EXCEPT
                             !.pc = "yielded", !.time = t,
                             !.n = frames_n(anim, t), !.yielded = <<0>>,
                             !.fn = "frames", !.cycle = H.log,
                             !.depth0 = anim.depth]
       ELSE /\ anim' = anim
            /\ gen' = [NoGen EXCEPT !.pc = "done", !.time = t, !.fn = "frames"]
    /\ ret' = [NoCall EXCEPT !.op = "frames", !.used = ret.used + t]
    /\ UNCHANGED <<sinkVars, renderVars, sess, libVars, moreVars>>

\* for frame in one_frame(anim): and with one_frame2(anim): a range of one
\* turn whatever the frame rate; one turn is counted as one unit of the time
\* the caller may ask for
OneFrameStart(fn) ==
    /\ gen.pc \in {"none", "done"}
    /\ ret.used + 1 <= MaxTime
    /\ LET H == loop_head(anim, <<>>)
       IN  /\ anim' = H.a
           /\ gen' = [NoGen EXCEPT
                        !.pc = "yielded", !.n = 1, !.yielded = <<0>>,
                        !.fn = fn, !.cycle = H.log, !.depth0 = anim.depth]
    /\ ret' = [NoCall EXCEPT !.op = fn, !.used = ret.used + 1]
    /\ UNCHANGED <<sinkVars, renderVars, sess, libVars, moreVars>>

\* the caller's drawing code, run while the generator is suspended or
\* outside a loop (before a wait)
Draw(c) ==
    /\ gen.pc \in {"none", "yielded", "done"}
    /\ c # anim.surface
    /\ anim' = [anim EXCEPT !.surface = c]
    /\ ret' = [NoCall EXCEPT !.op = "draw", !.used = ret.used]
    /\ UNCHANGED <<sinkVars, gen, renderVars, sess, libVars, moreVars>>

\* the next next(): ctx.restore(), save_frame(anim), then either the next
\* turn of the loop up to its yield, or the end of the range
FramesResume(polled) ==
    /\ gen.pc = "yielded"
    /\ LET T == loop_tail([a |-> anim, W |-> [p |-> proxy, w |-> written],
                           exc |-> "none"], polled, gen.cycle)
           S == T.S
           again == S.exc = "none" /\ gen.frame + 1 < gen.n
           H == loop_head(S.a, <<>>)
       IN  /\ anim' = IF again THEN H.a ELSE S.a
           /\ proxy' = S.W.p
           /\ written' = S.W.w
           /\ gen' = [gen EXCEPT
                        !.pc = IF S.exc # "none" THEN "raised"
                               ELSE IF again THEN "yielded" ELSE "done",
                        !.frame = IF again THEN @ + 1 ELSE @,
                        !.yielded = IF again THEN Append(@, gen.frame + 1) ELSE @,
                        !.saved = @ + Len(S.W.w) - Len(written),
                        !.dispatched = @ + 1,
                        !.cycle = IF again THEN H.log ELSE T.log,
                        !.depth0 = IF again THEN S.a.depth ELSE @,
                        !.last = IF S.exc # "none" THEN @
                                 ELSE [log |-> T.log, d0 |-> gen.depth0,
                                       d1 |-> S.a.depth]]
    /\ ret' = [NoCall EXCEPT !.op = "next", !.used = ret.used]
    /\ UNCHANGED <<fs, stops, renderVars, sess, libVars, moreVars>>

\* wait(anim, seconds), called between loops or from the drawing code
Wait(s) ==
    /\ gen.pc \in {"none", "yielded", "done"}
    /\ ret.used + s <= MaxTime
    /\ LET R == wait(anim, [p |-> proxy, w |-> written], s)
       IN  /\ proxy' = R.W.p
           /\ written' = R.W.w
           /\ anim' = R.a
           /\ ret' = [op |-> "wait", arg |-> s, val |-> R.val,
                      w0 |-> Len(written), px |-> anim.surface,
                      used |-> ret.used + s]
    /\ UNCHANGED <<fs, stops, gen, renderVars, sess, libVars, moreVars>>

NextFrames ==
    \/ \E t \in 0..MaxTime : FramesStart(t)
    \/ \E fn \in {"one_frame", "one_frame2"} : OneFrameStart(fn)
    \/ \E c \in Pixels : Draw(c)
    \/ \E polled \in Polls(anim) : FramesResume(polled)
    \/ \E s \in 0..MaxTime : Wait(s)

SpecFrames == InitFrames /\ [][NextFrames]_vars

-----------------------------------------------------------------------------
(* SpecRender: a caller rendering one element collection, call after call *)

\* the collections of MaxElems entries at most; elements are numbered in the
\* order of their first occurrence
Collections ==
    {list \in UNION {[1..k -> Elems] : k \in 1..MaxElems} :
        \A i \in 1..Len(list) :
            list[i] = 1 \/ \E j \in 1..(i - 1) : list[j] >= list[i] - 1}

InitRender ==
    /\ proxy = FfmpegProxy(MaxCap)
    /\ fs = NoFs
    /\ written = <<>>
    /\ stops = 0
    /\ \E kind \in {"Animation", "AnimationSequence"} : anim = NewAnim(kind, MaxFps)
    /\ gen = NoGen
    /\ ret = NoCall
    /\ \E list \in Collections : elements = list /\ rh = NoHistory(list)
    /\ el = NoElements
    /\ rf = NoRender
    /\ sess = NoSession
    /\ seq = NoSeq
    /\ view = NoView
    /\ imp = NoImport
    /\ cr = NoContext
    /\ enc = NoEncoder
    /\ dflt = NoDefaults

\* render_frames(anim, length, elements) up to the first yield of frames():
\* start_frame is read, and an empty range returns at once
RenderFramesCall(length) ==
    /\ rf.pc # "loop"
    /\ Turns(rh) < MaxPass
    /\ Turns(rh) + frames_n(anim, length) <= MaxPass
    /\ LET n == frames_n(anim, length)
           start_frame == IF HasCursor(anim.kind) THEN anim.current_frame ELSE 0
           call == NewCall("render_frames")
       IN  IF n > 0
           THEN /\ anim' = [anim EXCEPT !.depth = @ + 1, !.surface = Black]
                /\ rf' = [fn |-> "render_frames", pc |-> "loop", n |-> n, frame |-> 0,
                          start_frame |-> start_frame, val |-> None]
                /\ rh' = [rh EXCEPT !.calls = Append(@, call)]
           ELSE /\ anim' = IF HasCursor(anim.kind)
                           THEN [anim EXCEPT !.current_frame = @ + 1] ELSE anim
                /\ rf' = [fn |-> "render_frames", pc |-> "returned", n |-> 0, frame |-> 0,
                          start_frame |-> start_frame,
                          val |-> IF HasCursor(anim.kind)
                                  THEN anim.current_frame + 1 ELSE 0]
                /\ rh' = [rh EXCEPT
                            !.calls = Append(@, [call EXCEPT !.outcome = "returned"])]
    /\ ret' = [NoCall EXCEPT !.op = "render_frames"]
    /\ UNCHANGED <<sinkVars, gen, elements, el, sess, libVars, moreVars>>

\* One turn of render_frames' loop and the resumption of frames() after it:
\* the cursor is set, every element is stepped, the completed are removed;
\* then ctx.restore(), save_frame, and the next yield or the return.  An
\* exception of a step leaves the call with frames() suspended at its yield.
RenderFramesPass(o) ==
    /\ rf.fn = "render_frames" /\ rf.pc = "loop"
    /\ \E R \in {step_all(el, elements, o, 1, [removed |-> <<>>, log |-> <<>>])} :
       LET a1 == IF HasCursor(anim.kind)
                 THEN [anim EXCEPT !.current_frame = rf.frame + rf.start_frame]
                 ELSE anim
           a2 == [a1 EXCEPT !.surface =
                     IF \E i \in 1..Len(R.log) : R.log[i].res = "yield"
                     THEN Drawn ELSE @]
           S == save_frame([a |-> [a2 EXCEPT !.depth = @ - 1],
                            W |-> [p |-> proxy, w |-> written],
                            exc |-> "none"], <<>>)
           again == rf.frame + 1 < rf.n
           a3 == IF HasCursor(anim.kind)
                 THEN [S.a EXCEPT !.current_frame = @ + 1] ELSE S.a
       IN  IF R.err
           THEN /\ anim' = a2
                /\ el' = R.el
                /\ rf' = [rf EXCEPT !.pc = "raised"]
                /\ rh' = AfterPass(rh, elements, rf.frame, R.log, 0, "raised")
                /\ UNCHANGED <<proxy, written, elements>>
           ELSE /\ el' = R.el
                /\ elements' = remove_all(elements, R.removed)
                /\ proxy' = S.W.p
                /\ written' = S.W.w
                /\ anim' = IF S.exc # "none" THEN S.a
                           ELSE IF again
                           THEN [S.a EXCEPT !.depth = @ + 1, !.surface = Black]
                           ELSE a3
                /\ rf' = [rf EXCEPT
                            !.pc = IF S.exc # "none" THEN "raised"
                                   ELSE IF again THEN "loop" ELSE "returned",
                            !.frame = IF again THEN @ + 1 ELSE @,
                            !.val = IF S.exc # "none" \/ again THEN None
                                    ELSE IF HasCursor(anim.kind)
                                    THEN a3.current_frame ELSE 0]
                /\ rh' = AfterPass(rh, elements, rf.frame, R.log,
                                   Len(S.W.w) - Len(written),
                                   IF S.exc # "none" THEN "raised"
                                   ELSE IF again THEN "open" ELSE "returned")
    /\ ret' = [NoCall EXCEPT !.op = "pass"]
    /\ UNCHANGED <<fs, stops, gen, sess, libVars, moreVars>>

\* render_elements(anim, length, elements): a generator, nothing runs yet
RenderElementsCall(length) ==
    /\ rf.pc # "loop"
    /\ Turns(rh) + render_elements_n(anim, length) <= MaxPass
    /\ rf' = [fn |-> "render_elements", pc |-> "loop",
              n |-> render_elements_n(anim, length), frame |-> 0,
              start_frame |-> 0, val |-> None]
    /\ rh' = [rh EXCEPT !.calls = Append(@, NewCall("render_elements"))]
    /\ ret' = [NoCall EXCEPT !.op = "render_elements"]
    /\ UNCHANGED <<sinkVars, anim, gen, elements, el, sess, libVars, moreVars>>

\* next() on render_elements: every element is stepped, the completed are
\* removed, (frame, removed) is yielded; after the last frame of the range
\* the generator is exhausted
RenderElementsNext(o) ==
    /\ rf.fn = "render_elements" /\ rf.pc = "loop"
    /\ \E R \in {step_all(el, elements, o, 1, [removed |-> <<>>, log |-> <<>>])} :
       LET again == rf.frame + 1 < rf.n
       IN  /\ el' = R.el
           /\ elements' = IF R.err THEN elements ELSE remove_all(elements, R.removed)
           /\ rf' = [rf EXCEPT
                       !.pc = IF R.err THEN "raised"
                              ELSE IF again THEN "loop" ELSE "returned",
                       !.frame = IF ~R.err /\ again THEN @ + 1 ELSE @,
                       !.val = IF R.err THEN None ELSE <<rf.frame, R.removed>>]
           /\ rh' = AfterPass(rh, elements, rf.frame, R.log, 0,
                              IF R.err THEN "raised"
                              ELSE IF again THEN "open" ELSE "returned")
    /\ ret' = [NoCall EXCEPT !.op = "next"]
    /\ UNCHANGED <<sinkVars, anim, gen, sess, libVars, moreVars>>

NextRender ==
    \/ \E length \in 0..MaxTime : RenderFramesCall(length)
    \/ \E o \in [1..Len(elements) -> Outcomes] : RenderFramesPass(o)
    \/ \E length \in 0..MaxTime : RenderElementsCall(length)
    \/ \E o \in [1..Len(elements) -> Outcomes] : RenderElementsNext(o)

SpecRender == InitRender /\ [][NextRender]_vars

-----------------------------------------------------------------------------
(* SpecSession: a caller entering a session scope, rendering, and leaving *)

\* files left by an earlier run may exist; the part cap is 1 so that a few
\* frames make several parts
InitSession ==
    /\ proxy = FfmpegProxy(1)
    /\ \E stale \in SUBSET {VideoFile, AudioFile} : fs = [files |-> stale, ops |-> <<>>]
    /\ written = <<>>
    /\ stops = 0
    /\ anim = NoAnim
    /\ gen = NoGen
    /\ ret = NoCall
    /\ elements = <<>>
    /\ el = NoElements
    /\ rf = NoRender
    /\ rh = NoHistory(<<>>)
    /\ sess = NoSession
    /\ seq = NoSeq
    /\ view = NoView
    /\ imp = NoImport
    /\ cr = NoContext
    /\ enc = NoEncoder
    /\ dflt = NoDefaults

\* with cm(...) as anim: the manager up to its yield.  ffmpeg_wav removes
\* the old output files; the others do not.  video_output is a parameter of
\* the interactive managers only.
Enter(cm, video_output) ==
    /\ sess.pc = "out"
    /\ video_output => cm \in {"pygame_interactive", "opengl_interactive"}
    /\ sess' = [NoSession EXCEPT !.cm = cm, !.video_output = video_output,
                                 !.pc = "body",
                                 !.filename = IF cm = "wav" THEN WavFile ELSE AudioFile]
    /\ anim' = NewAnim(KindOf(cm, video_output), 1)
    /\ fs' = IF cm = "ffmpeg_wav"
             THEN [fs EXCEPT !.files = @ \ {VideoFile, AudioFile}] ELSE fs
    /\ proxy' = IF cm = "ffmpeg"
                THEN [FfmpegProxy(1) EXCEPT !.final_filename = Combined]
                ELSE FfmpegProxy(1)
    /\ UNCHANGED <<written, stops, gen, ret, renderVars, libVars, moreVars>>

\* one frame cycle of the body: the caller draws and the frame is
\* dispatched; a StopInteractive of the dispatch ends the body
\* (MaxCap cycles at most: enough for a second part at cap 1)
BodyFrame(polled) ==
    /\ sess.pc = "body"
    /\ sess.cm # "wav"
    /\ sess.frames < MaxCap
    /\ LET S == save_frame([a |-> [anim EXCEPT !.surface = Drawn],
                            W |-> [p |-> proxy, w |-> written],
                            exc |-> "none"], polled)
       IN  /\ anim' = S.a
           /\ proxy' = S.W.p
           /\ written' = S.W.w
           /\ sess' = [sess EXCEPT !.frames = @ + 1,
                                   !.pc = IF S.exc # "none" THEN "exit" ELSE @,
                                   !.exc = S.exc]
    /\ UNCHANGED <<fs, stops, gen, ret, renderVars, libVars, moreVars>>

\* the body mixes sound into the audio buffer
BodyMix ==
    /\ sess.pc = "body"
    /\ HasAudio(sess.cm, sess.video_output)
    /\ sess.audio.peak = 0
    /\ sess' = [sess EXCEPT !.audio.peak = 2]
    /\ UNCHANGED <<sinkVars, frameVars, renderVars, libVars, moreVars>>

\* the body ends: normally, or by an exception of the caller's code
BodyEnd(exc) ==
    /\ sess.pc = "body"
    /\ sess' = [sess EXCEPT !.pc = "exit", !.exc = exc]
    /\ UNCHANGED <<sinkVars, frameVars, renderVars, libVars, moreVars>>

\* the manager's except and finally clauses
Exit ==
    /\ sess.pc = "exit"
    /\ LET X == [p |-> proxy, f |-> fs, s |-> sess]
           Y == IF sess.cm = "wav" THEN wav_exit(X)
                ELSE IF sess.cm = "ffmpeg" THEN ffmpeg_exit(X)
                ELSE IF sess.cm = "ffmpeg_wav" THEN ffmpeg_wav_exit(X)
                ELSE IF sess.cm = "pygame_interactive" THEN pygame_interactive_exit(X)
                ELSE opengl_interactive_exit(X)
       IN  /\ proxy' = Y.p
           /\ fs' = Y.f
           /\ sess' = Y.s
           /\ anim' = IF sess.cm = "opengl_interactive"
                      THEN [anim EXCEPT !.is_closing = TRUE] ELSE anim
    /\ UNCHANGED <<written, stops, gen, ret, renderVars, libVars, moreVars>>

NextSession ==
    \/ \E cm \in Managers, video_output \in BOOLEAN : Enter(cm, video_output)
    \/ \E polled \in Polls(anim) : BodyFrame(polled)
    \/ BodyMix
    \/ \E exc \in {"none", "StopAnimation", "StopInteractive", "Error"} : BodyEnd(exc)
    \/ Exit

SpecSession == InitSession /\ [][NextSession]_vars

-----------------------------------------------------------------------------
(* SpecAudio: a caller mixing samples into one Sequence *)

Weights == {5}          \* weight arguments, in tenths (the default is 0.5)
Decays == {Point2, 5}   \* decay arguments, in tenths (the default is 0.5)

\* the buffer as the caller may hold it: silent, silent but for one value,
\* or with a value in every cell
Buffers ==
    {[c \in 1..MaxBuf |-> Zero]}
        \cup {[c \in 1..MaxBuf |-> IF c = i THEN Content(i - 1) ELSE Zero] : i \in 1..MaxBuf}
        \cup {[c \in 1..MaxBuf |-> Content(c - 1)]}

InitAudio ==
    /\ proxy = FfmpegProxy(MaxCap)
    /\ fs = NoFs
    /\ written = <<>>
    /\ stops = 0
    /\ anim = NoAnim
    /\ gen = NoGen
    /\ ret = NoCall
    /\ elements = <<>>
    /\ el = NoElements
    /\ rf = NoRender
    /\ rh = NoHistory(<<>>)
    /\ sess = NoSession
    /\ \E wav_file \in Buffers, rate \in 1..MaxRate, fps \in 1..MaxFps :
          seq = [NoSeq EXCEPT !.q = Sequence(wav_file, rate, fps)]
    /\ view = NoView
    /\ imp = NoImport
    /\ cr = NoContext
    /\ enc = NoEncoder
    /\ dflt = NoDefaults

\* the call fn(args) made on the Sequence, with its outcome R
Called(fn, args, R) ==
    seq' = [q |-> R.q, fn |-> fn, args |-> args, before |-> seq.q,
            exc |-> R.exc, calls |-> seq.calls + 1]

\* seq.current_frame += 1, as the frame loop of the caller does
Advance ==
    /\ seq.q.current_frame < MaxCursor
    /\ seq' = [seq EXCEPT !.q.current_frame = @ + 1, !.fn = "none", !.args = <<>>]
    /\ UNCHANGED <<sinkVars, frameVars, renderVars, sess, view, moreVars>>

\* mix_sample(seq, sample, frame / fps, weight, duration)
MixSample(n, frame, weight, duration) ==
    /\ seq.calls < MaxMix
    /\ Called("mix_sample", <<n, weight, duration, frame>>,
              mix_sample(seq.q, Sample(n), frame, seq.q.fps, weight, duration))
    /\ UNCHANGED <<sinkVars, frameVars, renderVars, sess, view, moreVars>>

\* mix_sample2(seq, sample, weight, duration)
MixSample2(n, weight, duration) ==
    /\ seq.calls < MaxMix
    /\ Called("mix_sample2", <<n, weight, duration>>,
              mix_sample2(seq.q, Sample(n), weight, duration))
    /\ UNCHANGED <<sinkVars, frameVars, renderVars, sess, view, moreVars>>

\* reverb(seq, delay, decay)
Reverb(delay, decay) ==
    /\ seq.calls < MaxMix
    /\ Called("reverb", <<delay, decay>>, reverb(seq.q, delay, decay))
    /\ UNCHANGED <<sinkVars, frameVars, renderVars, sess, view, moreVars>>

NextAudio ==
    \/ Advance
    \/ \E n \in 1..MaxSample, frame \in 0..MaxCursor, weight \in Weights,
          duration \in 1..MaxDuration : MixSample(n, frame, weight, duration)
    \/ \E n \in 1..MaxSample, weight \in Weights, duration \in 1..MaxDuration :
          MixSample2(n, weight, duration)
    \/ \E delay \in 0..MaxDuration, decay \in Decays : Reverb(delay, decay)

SpecAudio == InitAudio /\ [][NextAudio]_vars

-----------------------------------------------------------------------------
(* SpecView: a caller building a view-ordered list over a set of entities, *)
(* iterating it, and doing the same with the entities in another order     *)

QuarterTurns == {0, 1}
RotationOrders == {"xyz", "xzy", "yxz", "yzx", "zxy", "zyx"}
Starts == {0, 1}
Ends == {None, 1, 2}

Scenes ==
    [x_angle : QuarterTurns, y_angle : QuarterTurns, z_angle : QuarterTurns,
     rotation_order : RotationOrders]

\* the entities of a set by ascending payload
RECURSIVE in_order(_)
in_order(S) ==
    IF S = {} THEN <<>>
    ELSE LET m == CHOOSE x \in S : \A y \in S : x <= y
         IN <<m>> \o in_order(S \ {m})

\* the entities of a set in any order
Orders(S) == {s \in [1..Cardinality(S) -> S] : Range(s) = S}

InitView ==
    /\ proxy = FfmpegProxy(MaxCap)
    /\ fs = NoFs
    /\ written = <<>>
    /\ stops = 0
    /\ anim = NoAnim
    /\ gen = NoGen
    /\ ret = NoCall
    /\ elements = <<>>
    /\ el = NoElements
    /\ rf = NoRender
    /\ rh = NoHistory(<<>>)
    /\ sess = NoSession
    /\ seq = NoSeq
    /\ \E cls \in Classes :
          \E scene \in IF cls = "ZOrderList" THEN {NoScene} ELSE Scenes,
             entities \in {S \in SUBSET (1..Len(Pool(cls))) : Cardinality(S) <= MaxEnts} :
             view = [NoView EXCEPT !.cls = cls, !.scene = scene, !.entities = entities]
    /\ imp = NoImport
    /\ cr = NoContext
    /\ enc = NoEncoder
    /\ dflt = NoDefaults

\* l = cls(elements, ...): the caller hands the entities over, with or
\* without a slice
NewList(sliced, start, end) ==
    /\ view.pc = "none"
    /\ view' = [view EXCEPT
                  !.l = new_list(view.cls, view.scene, in_order(view.entities),
                                 sliced, start, end),
                  !.pc = IF view.cls = "ZOrderList" /\ sliced THEN "failed" ELSE "built",
                  !.sliced = sliced, !.start = start, !.end = end]
    /\ UNCHANGED <<sinkVars, frameVars, renderVars, sess, seq, moreVars>>

\* for payload in l: ... to the end
Iterate ==
    /\ view.pc \in {"built", "rebuilt"}
    /\ \E R \in {iterate(view.l)} :
          view' = [view EXCEPT
                     !.l = R.l,
                     !.pc = IF view.pc = "built" THEN "iterated" ELSE "compared",
                     !.runs = Append(@, [elements |-> view.l.elements,
                                         out |-> R.out])]
    /\ UNCHANGED <<sinkVars, frameVars, renderVars, sess, seq, moreVars>>

\* a second list of the same class over the same entities, handed over in
\* another order, with the same slice
Reorder(list) ==
    /\ view.pc = "iterated"
    /\ view' = [view EXCEPT
                  !.l = new_list(view.cls, view.scene, list, view.sliced,
                                 view.start, view.end),
                  !.pc = "rebuilt"]
    /\ UNCHANGED <<sinkVars, frameVars, renderVars, sess, seq, moreVars>>

NextView ==
    \/ \E sliced \in BOOLEAN :
          \E start \in IF sliced THEN Starts ELSE {0},
             end \in IF sliced THEN Ends ELSE {None} : NewList(sliced, start, end)
    \/ Iterate
    \/ \E list \in Orders(view.entities) : Reorder(list)

SpecView == InitView /\ [][NextView]_vars

-----------------------------------------------------------------------------
(* SpecImport: a caller loading one WAV file *)

InitImport ==
    /\ proxy = FfmpegProxy(MaxCap)
    /\ fs = NoFs
    /\ written = <<>>
    /\ stops = 0
    /\ anim = NoAnim
    /\ gen = NoGen
    /\ ret = NoCall
    /\ elements = <<>>
    /\ el = NoElements
    /\ rf = NoRender
    /\ rh = NoHistory(<<>>)
    /\ sess = NoSession
    /\ seq = NoSeq
    /\ view = NoView
    /\ \E file \in WavFiles : imp = [NoImport EXCEPT !.file = file]
    /\ cr = NoContext
    /\ enc = NoEncoder
    /\ dflt = NoDefaults

\* audio, rate = load_wav_file(filename)
LoadWavFile ==
    /\ imp.pc = "none"
    /\ \E R \in {load_wav_file(imp.file)} :
          imp' = [imp EXCEPT !.pc = "done", !.val = R.val, !.exc = R.exc, !.out = R.out]
    /\ UNCHANGED <<sinkVars, frameVars, renderVars, sess, libVars, cr, enc, dflt>>

NextImport == LoadWavFile

SpecImport == InitImport /\ [][NextImport]_vars

-----------------------------------------------------------------------------
(* SpecEncoder: the proxy and the encoder subprocess on the two pipes *)

InitEncoder ==
    /\ proxy = FfmpegProxy(MaxCap)
    /\ fs = NoFs
    /\ written = <<>>
    /\ stops = 0
    /\ anim = NoAnim
    /\ gen = NoGen
    /\ ret = NoCall
    /\ elements = <<>>
    /\ el = NoElements
    /\ rf = NoRender
    /\ rh = NoHistory(<<>>)
    /\ sess = NoSession
    /\ seq = NoSeq
    /\ view = NoView
    /\ imp = NoImport
    /\ cr = NoContext
    /\ enc = NoEncoder
    /\ dflt = NoDefaults

encUnchanged == UNCHANGED <<sinkVars, frameVars, renderVars, sess, libVars, imp, cr, dflt>>

\* the frame loop calls anim.pipe.write(data)
EncWrite ==
    /\ enc.pc = "idle"
    /\ enc.frames < MaxEncFrames
    /\ enc' = enc_write(enc)
    /\ encUnchanged

\* the encoder has read from the stdin pipe: the blocked stdin.write returns
EncWriteReturns ==
    /\ enc.pc = "write"
    /\ enc.stdin < StdinCap
    /\ enc' = stdin_write(enc)
    /\ encUnchanged

\* the session's exit calls anim.pipe.stop_process()
EncStop ==
    /\ enc.pc = "idle"
    /\ enc.running
    /\ enc' = enc_stop_process(enc, "return")
    /\ encUnchanged

\* the encoder has exited: wait() returns, the diagnostics are read into the
\* log, and a write that was rolling over goes on with a new process
EncWaitReturns ==
    /\ enc.pc = "wait"
    /\ enc.exited
    /\ enc' = IF enc.then = "write"
              THEN enc_write_tail(Popen(after_wait(enc)))
              ELSE after_wait(enc)
    /\ encUnchanged

\* the encoder emits a line of diagnostics: into the stderr pipe if it has
\* room, and else it blocks in that write.  Nothing reads the stderr pipe
\* while the encoder lives (the proxy reads it after wait() only), so a
\* blocked encoder stays blocked.
EncoderLogs ==
    /\ enc.running /\ ~enc.exited /\ ~enc.blocked
    /\ enc.emitted < MaxDiag
    /\ enc' = IF enc.stderr < StderrCap
              THEN [enc EXCEPT !.stderr = @ + 1, !.emitted = @ + 1]
              ELSE [enc EXCEPT !.blocked = TRUE, !.emitted = @ + 1]
    /\ encUnchanged

\* the encoder consumes a frame of its input
EncoderReads ==
    /\ enc.running /\ ~enc.exited /\ ~enc.blocked
    /\ enc.stdin > 0
    /\ enc' = [enc EXCEPT !.stdin = @ - 1]
    /\ encUnchanged

\* the encoder has read the end of its input and exits
EncoderExits ==
    /\ enc.running /\ ~enc.exited /\ ~enc.blocked
    /\ enc.stdin = 0 /\ enc.closed
    /\ enc' = [enc EXCEPT !.exited = TRUE]
    /\ encUnchanged

NextEncoder ==
    \/ EncWrite
    \/ EncWriteReturns
    \/ EncStop
    \/ EncWaitReturns
    \/ EncoderLogs
    \/ EncoderReads
    \/ EncoderExits

\* the encoder consumes its input and exits whenever it is not blocked, and
\* a system call of the proxy returns when it can
SpecEncoder ==
    /\ InitEncoder /\ [][NextEncoder]_vars
    /\ WF_vars(EncoderReads) /\ WF_vars(EncoderExits)
    /\ WF_vars(EncWriteReturns) /\ WF_vars(EncWaitReturns)

-----------------------------------------------------------------------------
(* SpecReopen: a caller opening interactive sessions one after another *)

InitReopen ==
    /\ proxy = FfmpegProxy(1)
    /\ fs = NoFs
    /\ written = <<>>
    /\ stops = 0
    /\ anim = NoAnim
    /\ gen = NoGen
    /\ ret = NoCall
    /\ elements = <<>>
    /\ el = NoElements
    /\ rf = NoRender
    /\ rh = NoHistory(<<>>)
    /\ sess = NoSession
    /\ seq = NoSeq
    /\ view = NoView
    /\ imp = NoImport
    /\ cr = NoContext
    /\ enc = NoEncoder
    /\ dflt = NoDefaults

\* with pygame_interactive(...) as anim: or with opengl_interactive(...):
\* the manager up to its yield; the session object's events is the list the
\* parameter is bound to
Open(cm, video_output, explicit) ==
    /\ sess.pc \in {"out", "closed"}
    /\ dflt.opened < MaxSessions
    /\ sess' = [NoSession EXCEPT !.cm = cm, !.video_output = video_output,
                                 !.pc = "body"]
    /\ anim' = [NewAnim(KindOf(cm, video_output), 1) EXCEPT
                  !.events = events_of(dflt, cm, explicit)]
    /\ proxy' = FfmpegProxy(1)
    /\ dflt' = [dflt EXCEPT !.explicit = explicit,
                            !.at_open = events_of(dflt, cm, explicit),
                            !.polled = <<>>,
                            !.opened = @ + 1]
    /\ UNCHANGED <<fs, written, stops, gen, ret, renderVars, libVars, imp, cr, enc>>

\* one frame cycle of the body, as BodyFrame; the events the poll appends go
\* into the list the session object holds
ReopenFrame(polled) ==
    /\ sess.pc = "body"
    /\ sess.frames < MaxCap
    /\ LET S == save_frame([a |-> [anim EXCEPT !.surface = Drawn],
                            W |-> [p |-> proxy, w |-> written],
                            exc |-> "none"], polled)
       IN  /\ anim' = S.a
           /\ proxy' = S.W.p
           /\ written' = S.W.w
           /\ sess' = [sess EXCEPT !.frames = @ + 1,
                                   !.pc = IF S.exc # "none" THEN "exit" ELSE @,
                                   !.exc = S.exc]
           /\ dflt' = [aliased(dflt, sess.cm, S.a.events) EXCEPT !.polled = polled]
    /\ UNCHANGED <<fs, stops, gen, ret, renderVars, libVars, imp, cr, enc>>

\* the caller's code drains the queue: anim.events.clear()
Drain ==
    /\ sess.pc = "body"
    /\ anim.events # <<>>
    /\ anim' = [anim EXCEPT !.events = <<>>]
    /\ dflt' = aliased(dflt, sess.cm, <<>>)
    /\ UNCHANGED <<sinkVars, gen, ret, renderVars, sess, libVars, imp, cr, enc>>

NextReopen ==
    \/ \E cm \in Interactives, video_output \in BOOLEAN, explicit \in BOOLEAN :
          Open(cm, video_output, explicit)
    \/ \E polled \in Polls(anim) : ReopenFrame(polled)
    \/ Drain
    \/ BodyEnd("none")
    \/ Exit

SpecReopen == InitReopen /\ [][NextReopen]_vars

-----------------------------------------------------------------------------
(* SpecDraw: a caller using the construction helpers on one context *)

InitDraw ==
    /\ proxy = FfmpegProxy(MaxCap)
    /\ fs = NoFs
    /\ written = <<>>
    /\ stops = 0
    /\ anim = NoAnim
    /\ gen = NoGen
    /\ ret = NoCall
    /\ elements = <<>>
    /\ el = NoElements
    /\ rf = NoRender
    /\ rh = NoHistory(<<>>)
    /\ sess = NoSession
    /\ seq = NoSeq
    /\ view = NoView
    /\ imp = NoImport
    /\ \E construct, debug, selected \in BOOLEAN, source \in Colors,
          dash \in {<<>>, <<4>>}, path \in {<<>>, << <<"move_to", "p">> >>},
          saved \in {<<>>, <<[dash |-> <<>>, source |-> "WHITE", line_width |-> 2,
                               matrix |-> <<>>]>>} :
          LET c == NewContext(construct, debug, selected, dash, source, path, saved)
          IN cr = [NoContext EXCEPT !.c = c, !.before = c]
    /\ enc = NoEncoder
    /\ dflt = NoDefaults

\* the call fn(anim, ...) that left the context as c
Drew(fn, c) ==
    /\ cr.draws < MaxDraws
    /\ cr' = [c |-> c, fn |-> fn, before |-> cr.c, draws |-> cr.draws + 1]
    /\ UNCHANGED <<sinkVars, frameVars, renderVars, sess, libVars, imp, enc, dflt>>

\* anim.construct = value, by the caller
SetConstruct(value) ==
    /\ cr.c.construct # value
    /\ cr' = [cr EXCEPT !.c.construct = value, !.fn = "none"]
    /\ UNCHANGED <<sinkVars, frameVars, renderVars, sess, libVars, imp, enc, dflt>>

DrawConstructionLine(color, dashed) ==
    Drew("draw_construction_line",
         draw_construction_line(cr.c, "p1", "p2", color, 2, dashed, 4))

DrawConstructionCircle(color, dashed) ==
    Drew("draw_construction_circle",
         draw_construction_circle(cr.c, "center", color, 2, dashed, 4))

DrawConstructionEllipse(color, dashed) ==
    Drew("draw_construction_ellipse",
         draw_construction_ellipse(cr.c, "center", color, 10, "angle", dashed, 4))

DrawConstructionBezier(color, dashed) ==
    Drew("draw_construction_bezier",
         draw_construction_bezier(cr.c, "p0", "p1", "p2", "p3", color, 1, dashed, 4))

NextDraw ==
    \/ \E value \in BOOLEAN : SetConstruct(value)
    \/ \E color \in {"BLUE", "RED"}, dashed \in BOOLEAN :
          \/ DrawConstructionLine(color, dashed)
          \/ DrawConstructionCircle(color, dashed)
          \/ DrawConstructionEllipse(color, dashed)
          \/ DrawConstructionBezier(color, dashed)

SpecDraw == InitDraw /\ [][NextDraw]_vars

-----------------------------------------------------------------------------
(* Claims about the sink *)

\* C2: with cap C and N > C frames written with no intervening stop, the
\* sink has exactly ceil(N/C) parts and no part received more than C frames.
C2_PartsAreCeilNOverC ==
    (stops = 0 /\ Len(written) > proxy.max_frames) =>
        /\ Len(proxy.parts) = CeilDiv(Len(written), proxy.max_frames)
        /\ \A i \in 1..Len(proxy.stdin) : Len(proxy.stdin[i]) <= proxy.max_frames

\* C3: every frame passed to write was delivered exactly once, in call
\* order, to an encoder input stream; an encoder is closed before the next
\* part is opened, and the frame that triggers a rollover is in the new part.
C3_EveryFrameDeliveredOnce ==
    /\ Flatten(proxy.stdin) = written
    /\ Len(proxy.stdin) = Len(proxy.parts)
    /\ \A i \in 1..Len(proxy.parts) :
          /\ proxy.stdin[i] # <<>>
          /\ i \in Range(proxy.waited) \/ i = proxy.writing_process
    /\ \A i \in 1..Len(proxy.waited) : proxy.waited[i] # proxy.writing_process

\* reached: three parts hold frames after one stop by the caller, so at
\* least one of the two changes of part was a rollover inside write
C3_Witness ==
    /\ Len(proxy.parts) >= 3
    /\ stops = 1
    /\ Len(written) >= 4

\* C8: combine_parts chooses by the number of parts: none -> a message and
\* no file operation; one -> that part is renamed to the final name; more ->
\* a manifest of every part once, in creation order, then the concat call.
\* A part exists only if a frame was written.
C8_CombineByPartCount ==
    /\ proxy.parts # <<>> => written # <<>>
    /\ \A i \in 1..Len(proxy.parts) : proxy.parts[i] = i - 1
    /\ fs.ops # <<>> =>
         IF Len(proxy.parts) = 0
         THEN fs.ops = <<FsOp("print", NoFile, <<>>)>> /\ fs.files = {}
         ELSE IF Len(proxy.parts) = 1
         THEN /\ fs.ops = <<FsOp("rename", proxy.parts[1], <<>>)>>
              /\ fs.files = {proxy.final_filename}
         ELSE /\ fs.ops = <<FsOp("files.txt", NoFile, proxy.parts),
                            FsOp("concat", NoFile, proxy.parts)>>
              /\ proxy.final_filename \in fs.files

\* reached: the sink was finalized with more than one part
C8_Witness ==
    /\ Len(proxy.parts) > 1
    /\ fs.ops # <<>>

-----------------------------------------------------------------------------
(* Claims about the frame loop and wait *)

\* floor(num / den) for num >= 0, den > 0, as the arithmetic defines it
Floor(num, den) == CHOOSE m \in 0..num : m * den <= num /\ num < (m + 1) * den

\* C1: on a video-sink session, frames(anim, d) consumed to its end yielded
\* exactly floor(d*f) frames numbered 0..floor(d*f)-1 in increasing order
\* and wrote exactly that many frames to the sink, one per yielded frame.
C1_FramesYieldsFloorDF ==
    anim.kind \in {"Animation", "AnimationSequence"} =>
        /\ (gen.fn = "frames" /\ gen.pc = "done") =>
             /\ gen.yielded = [i \in 1..Floor(gen.time * anim.fps, TimeDen) |-> i - 1]
             /\ gen.saved = Floor(gen.time * anim.fps, TimeDen)
        /\ gen.pc = "yielded" => gen.saved = Len(gen.yielded) - 1

\* reached: a loop of two frames or more, of a duration that is no whole
\* number of frames, was consumed to its end
C1_Witness ==
    /\ anim.kind \in {"Animation", "AnimationSequence"}
    /\ gen.fn = "frames" /\ gen.pc = "done"
    /\ Len(gen.yielded) >= 2
    /\ gen.time * anim.fps > Len(gen.yielded) * TimeDen

\* the frames the last call wrote to the sink
WrittenByCall == SubSeq(written, ret.w0 + 1, Len(written))

\* C9: wait(anim, s) on an Animation or AnimationSequence wrote the frame
\* buffer exactly floor(s*fps) times, every written frame being the surface
\* as it was at the call, left the surface as it was, and returned the count.
C9_WaitWritesFloorSF ==
    (ret.op = "wait" /\ anim.kind \in {"Animation", "AnimationSequence"}) =>
        /\ ret.val = Floor(ret.arg * anim.fps, TimeDen)
        /\ Len(WrittenByCall) = Floor(ret.arg * anim.fps, TimeDen)
        /\ \A i \in 1..Len(WrittenByCall) : WrittenByCall[i].px = ret.px
        /\ anim.surface = ret.px

\* reached: a wait that held a drawn frame for two writes or more
C9_Witness ==
    /\ ret.op = "wait"
    /\ anim.kind \in {"Animation", "AnimationSequence"}
    /\ ret.val >= 2
    /\ ret.px # Black
    /\ ret.arg * anim.fps > ret.val * TimeDen

\* C10: wait(duration) on every variant that owns a video sink wrote the
\* unchanged frame buffer exactly floor(duration*fps) times, and on the
\* interactive variants without a sink wrote nothing.
C10_WaitOnEverySinkVariant ==
    ret.op = "wait" =>
        IF HasPipe(anim.kind)
        THEN /\ Len(WrittenByCall) = Floor(ret.arg * anim.fps, TimeDen)
             /\ \A i \in 1..Len(WrittenByCall) : WrittenByCall[i].px = ret.px
             /\ anim.surface = ret.px
        ELSE WrittenByCall = <<>>

-----------------------------------------------------------------------------
(* Claims about the render helpers *)

Occurs(list, e) == Cardinality({i \in 1..Len(list) : list[i] = e})

RECURSIVE IsSubSeq(_, _)
IsSubSeq(a, b) ==
    IF a = <<>> THEN TRUE
    ELSE IF b = <<>> THEN FALSE
    ELSE IF Head(a) = Head(b) THEN IsSubSeq(Tail(a), Tail(b))
    ELSE IsSubSeq(a, Tail(b))

C6_NeverSteppedAfterCompletion == \A e \in Elems : rh.late[e] = 0

\* C7: in a call in which a step raised, in its frame f: the call raised,
\* it began no pass after that one, a render_frames call wrote exactly the
\* f frames before it, and the raising step is the last step of the call.
C7_FailurePropagates ==
    \A c \in 1..Len(rh.calls) :
        rh.calls[c].errAt # None =>
            /\ rh.calls[c].outcome = "raised"
            /\ c = Len(rh.calls) => rf.pc = "raised"
            /\ rh.calls[c].begun = rh.calls[c].errAt + 1
            /\ rh.calls[c].wrote =
                  IF rh.calls[c].fn = "render_frames" THEN rh.calls[c].errAt ELSE 0
            /\ \A i \in 1..Len(rh.steps) :
                  (rh.steps[i].call = c /\ rh.steps[i].res = "Error") =>
                      \A j \in (i + 1)..Len(rh.steps) : rh.steps[j].call # c

\* the first of two elements raised in the second frame of a render_frames
\* call; one frame had been written
C7_Witness ==
    /\ rf.fn = "render_frames" /\ rf.pc = "raised"
    /\ rh.calls[Len(rh.calls)].errAt = 1
    /\ Len(elements) = 2
    /\ rh.steps[Len(rh.steps)].e = elements[1]
    /\ rh.steps[Len(rh.steps)].res = "Error"
    /\ Len(written) = 1

-----------------------------------------------------------------------------
(* Claims about the session scopes *)

\* the finalization steps of a scope, in order
Finalization(cm, video_output) ==
    LET video == <<"stop_process", "combine_parts">>
        audio == <<"normalize", "fade_in_out", "wavfile.write">>
    IN  IF cm = "ffmpeg" THEN video
        ELSE IF cm = "ffmpeg_wav" THEN video \o audio \o <<"mux">>
        ELSE <<IF cm = "pygame_interactive" THEN "pygame.quit" ELSE "window.close">>
             \o (IF video_output THEN video \o audio \o <<"mux">> ELSE <<>>)

\* C4: however the body ended, the scope took every finalization step of
\* its kind, in order, before it returned or raised: the encoder is stopped,
\* the parts are combined, the audio is normalized, faded and saved, the mux
\* is attempted; it raises exactly when the body ended with an exception
\* other than its own stop signal.
C4_FinalizationAlwaysRuns ==
    (sess.pc = "closed" /\ sess.cm # "wav") =>
        /\ sess.log = Finalization(sess.cm, sess.video_output)
                        \o <<IF sess.exc \in {"none", OwnStop(sess.cm)}
                             THEN "return" ELSE "raise">>
        /\ sess.out = IF sess.exc \in {"none", OwnStop(sess.cm)}
                      THEN "returned" ELSE "raised"
        /\ Recording(sess.cm, sess.video_output) =>
              /\ proxy.writing_process = None
              /\ Len(proxy.waited) = Len(proxy.parts)
              /\ fs.ops # <<>>
              /\ written # <<>> => proxy.final_filename \in fs.files
        /\ HasAudio(sess.cm, sess.video_output) =>
              /\ sess.audio.peak \in {0, 1}
              /\ sess.audio.faded /\ sess.audio.saved
              /\ AudioFile \in fs.files
              /\ \E i \in 1..Len(sess.msgs) :
                    sess.msgs[i] \in {"combine", "Missing video", "Missing audio"}

\* a recording interactive session whose body raised a foreign exception
\* after two frames and some sound
C4_Witness ==
    /\ sess.pc = "closed"
    /\ sess.cm = "pygame_interactive" /\ sess.video_output
    /\ sess.exc = "Error" /\ sess.out = "raised"
    /\ Len(written) >= 2
    /\ sess.audio.peak = 1

\* C11: in an interactive session the dispatch that polls a quit event is
\* the last frame cycle of the body: it raises StopInteractive at once (the
\* body never goes on with a quit in the queue), and the scope then runs
\* its finalization and returns instead of raising.
C11_QuitStopsAtThatFrame ==
    sess.cm \in Interactives =>
        /\ sess.pc = "body" => "QUIT" \notin Range(anim.events)
        /\ "QUIT" \in Range(anim.events) =>
              /\ sess.exc = "StopInteractive"
              /\ anim.events[Len(anim.events)] = "QUIT"
              /\ anim.shown = sess.frames
        /\ (sess.pc = "closed" /\ sess.exc = "StopInteractive") =>
              /\ sess.out = "returned"
              /\ sess.log = Finalization(sess.cm, sess.video_output) \o <<"return">>
              /\ sess.msgs # <<>>

\* a recording GPU session closed by a quit polled at its second frame
C11_Witness ==
    /\ sess.cm = "opengl_interactive" /\ sess.video_output
    /\ sess.pc = "closed"
    /\ "QUIT" \in Range(anim.events)
    /\ anim.shown = 2
    /\ sess.out = "returned"

-----------------------------------------------------------------------------
(* Claims about the dispatch of a frame *)

\* the dispatches the current frames() generator has made
Dispatched == Len(gen.yielded) - (IF gen.pc = "yielded" THEN 1 ELSE 0)

\* C12: right after a dispatch, a video-only or audio-video session has
\* written the frame once and shown nothing and polled nothing; an
\* interactive-only session (direct or GPU) has displayed and polled and
\* nothing was ever written; an Image session has done neither.
C12_DispatchByCapability ==
    ret.op = "next" =>
        /\ anim.kind \in {"Animation", "AnimationSequence"} =>
              /\ anim.did = <<"write">>
              /\ gen.saved = Dispatched
              /\ anim.shown = 0 /\ anim.events = <<>>
        /\ anim.kind \in {"Interactive", "OpenGLInteractive"} =>
              /\ anim.did = <<"display", "poll">>
              /\ anim.shown >= Dispatched
              /\ written = <<>> /\ proxy.parts = <<>>
        /\ anim.kind = "Image" =>
              /\ anim.did = <<>>
              /\ anim.shown = 0 /\ anim.events = <<>>
              /\ written = <<>> /\ proxy.parts = <<>>

\* a GPU interactive-only session has dispatched two frames
C12_Witness ==
    /\ ret.op = "next"
    /\ anim.kind = "OpenGLInteractive"
    /\ Dispatched = 2 /\ anim.shown = 2

\* C13: in an interactive session that records, every frame cycle displays,
\* polls and then writes, and at any point the frames written are as many
\* as the frames shown.
C13_ShownAndWritten ==
    (sess.cm \in Interactives /\ sess.video_output) =>
        /\ sess.frames > 0 => anim.did = <<"display", "poll", "write">>
        /\ Len(written) = anim.shown

Said(text) == \E i \in 1..Len(sess.msgs) : sess.msgs[i] = text

\* C14: when a session that records audio and video has closed, combine was
\* invoked exactly if the video file and the audio file both exist; a
\* missing stream is reported by the message that names it, and no message
\* names a stream that exists.
C14_MuxIffBothExist ==
    (sess.pc = "closed" /\ HasAudio(sess.cm, sess.video_output)
                        /\ Recording(sess.cm, sess.video_output)) =>
        /\ Said("combine") <=> (VideoFile \in fs.files /\ AudioFile \in fs.files)
        /\ Said("Missing video") <=> VideoFile \notin fs.files
        /\ Said("Missing audio") <=> AudioFile \notin fs.files
        /\ sess.log[Len(sess.log) - 1] = "mux"

-----------------------------------------------------------------------------
(* More claims about the sink *)

\* C15: a stop_process call made while no encoder is active changes nothing
\* of the sink: no stream closed, no process waited for, nothing logged,
\* part list, part index and frame counter as before.
C15_StopIdempotent ==
    [][(stops' # stops /\ proxy.writing_process = None) =>
          (proxy' = proxy /\ fs' = fs /\ written' = written)]_vars

\* two stops after some writes: the second found no encoder
C15_Witness ==
    /\ stops = 2
    /\ written # <<>>
    /\ Len(proxy.waited) = 1
    /\ proxy.log = 1

-----------------------------------------------------------------------------
(* Claims about the audio finalization *)

\* C16: when a scope that owns an audio buffer has closed, a buffer whose
\* peak was not 0 has peak 1; a silent buffer was not divided by its peak and
\* is unchanged; either way the buffer was faded and written.
C16_NormalizeUnlessSilent ==
    (sess.pc = "closed" /\ HasAudio(sess.cm, sess.video_output)) =>
        /\ sess.audio.max_val # 0 => (sess.audio.peak = 1 /\ sess.audio.divided)
        /\ sess.audio.max_val = 0 =>
              (sess.audio.peak = 0 /\ ~sess.audio.divided /\ ~sess.audio.nan)
        /\ sess.audio.faded /\ sess.audio.saved
        /\ sess.filename \in fs.files

-----------------------------------------------------------------------------
(* Claims about the audio buffer compositor *)

\* C17: after mix_sample2 the buffer is the buffer mix_sample leaves when it
\* is called on the same Sequence with the same sample, weight and duration
\* and with time = current_frame / fps, for every sample length, including
\* samples longer than rate * duration.
C17_MixAtCursorIsMixSample ==
    seq.fn = "mix_sample2" =>
        seq.q.wav_file =
            mix_sample(seq.before, Sample(seq.args[1]), seq.before.current_frame,
                       seq.before.fps, seq.args[2], seq.args[3]).q.wav_file

\* C18: after reverb(delay, decay), with old the buffer before the call and
\* D the delay in samples, cell j holds old[j] + decay * old[j - D] for
\* j >= D and old[j] for j < D, with the decay the caller passed.
C18_SingleEcho ==
    seq.fn = "reverb" =>
        LET old == seq.before.wav_file
            D == seq.before.rate * seq.args[1]
        IN \A j \in 0..(Len(old) - 1) :
              seq.q.wav_file[j + 1] =
                  IF j >= D THEN echo(old[j + 1], old[j - D + 1], seq.args[2])
                  ELSE old[j + 1]

-----------------------------------------------------------------------------
(* Claims about the view-ordered lists *)

\* the key of each entity of the set the lists are built over
Key(e) == key_of(view.cls, view.scene, e)

\* two entities with equal keys
Tie(a, b) == ~less(Key(a), Key(b)) /\ ~less(Key(b), Key(a))

\* full holds every entity of the list once and is ascending by key
FullySorted(full, list) ==
    /\ Len(full) = Len(list)
    /\ Range(full) = Range(list)
    /\ \A i, j \in 1..Len(full) : i < j => ~less(Key(full[j]), Key(full[i]))

\* C19: a list of any of the four classes built with a slice [start:end] is
\* accepted, and what it yields is positions start..end of a fully sorted
\* (ascending by key) sequence of the payloads.
C19_SliceOfSorted ==
    (view.sliced /\ view.pc # "none") =>
        /\ view.l.exc = "none"
        /\ \A r \in 1..Len(view.runs) :
              \E full \in Orders(view.entities) :
                 /\ FullySorted(full, view.runs[r].elements)
                 /\ view.runs[r].out = pyslice(full, view.start, view.end)

\* C20: two lists of the same class over the same entities, handed over in
\* different orders, yield the same sequence.
C20_OrderOfInputIrrelevant ==
    Len(view.runs) = 2 => view.runs[1].out = view.runs[2].out

\* position of payload e in a list without repetitions
Pos(e, list) == CHOOSE i \in 1..Len(list) : list[i] = e

\* C20 (amended): the two lists yield the same sequence when no two
\* entities have the same key; entities with the same key are yielded in the
\* order in which they were handed over.
C20_StableByKey ==
    /\ (Len(view.runs) = 2 /\ \A a, b \in view.entities : a # b => ~Tie(a, b))
          => view.runs[1].out = view.runs[2].out
    /\ \A r \in 1..Len(view.runs) :
          LET out == view.runs[r].out
          IN \A i, j \in 1..Len(out) :
                (i < j /\ Tie(out[i], out[j]))
                    => Pos(out[i], view.runs[r].elements) < Pos(out[j], view.runs[r].elements)

\* three entities with different keys, handed over in two different orders
C20_Witness ==
    /\ Len(view.runs) = 2
    /\ Cardinality(view.entities) = 3
    /\ \A a, b \in view.entities : a # b => ~Tie(a, b)
    /\ view.runs[1].elements # view.runs[2].elements
    /\ view.runs[1].out = view.runs[2].out
    /\ Len(view.runs[2].out) >= 2

\* C21: iterating a ZOrderList yields the payload of every entity of the
\* list exactly once, in ascending order of the stored z, and leaves the
\* list's collection as it was handed over: same members, same order.
C21_ZOrderAscendingOnce ==
    (view.cls = "ZOrderList" /\ view.pc \in {"iterated", "compared"}) =>
        LET run == view.runs[Len(view.runs)]
        IN /\ Len(run.out) = Len(run.elements)
           /\ \A e \in Range(run.elements) :
                 Cardinality({i \in 1..Len(run.out) : run.out[i] = e}) = 1
           /\ \A i, j \in 1..Len(run.out) :
                 i < j => Pool("ZOrderList")[run.out[i]][3] <= Pool("ZOrderList")[run.out[j]][3]
           /\ view.l.elements = run.elements

\* three entities handed over out of z order have been iterated
C21_Witness ==
    /\ view.cls = "ZOrderList"
    /\ view.pc = "compared"
    /\ Len(view.runs[2].elements) = 3
    /\ view.runs[2].out # view.runs[2].elements
    /\ view.l.elements = view.runs[2].elements

\* the entities ViewOrderList2 reads as without points (None), with an empty
\* point set, and with points
IsNone(e) == Pool("ViewOrderList2")[e].is_none
IsEmpty(e) == ~IsNone(e) /\ Len(Pool("ViewOrderList2")[e].points3d) = 0
HasPoints(e) == ~IsNone(e) /\ ~IsEmpty(e)

\* C22: in a ViewOrderList2 an entity whose points3d is None has key
\* +infinity and is yielded after every entity with points, and an entity
\* whose points3d is empty has key -infinity and is yielded before every
\* entity with points; the iteration completes.
C22_NoneLastEmptyFirst ==
    (view.cls = "ViewOrderList2" /\ view.pc \in {"iterated", "compared"}) =>
        /\ view.l.exc = "none"
        /\ \A e \in view.entities :
              /\ IsNone(e) => Key(e) = infinity(1)
              /\ IsEmpty(e) => Key(e) = infinity(-1)
        /\ \A r \in 1..Len(view.runs) :
              LET out == view.runs[r].out
              IN \A i, j \in 1..Len(out) :
                    /\ (IsNone(out[i]) /\ HasPoints(out[j])) => j < i
                    /\ (IsEmpty(out[i]) /\ HasPoints(out[j])) => i < j

\* a list handed over as None, points, empty came out as empty, points, None
C22_Witness ==
    /\ view.cls = "ViewOrderList2"
    /\ view.pc = "compared"
    /\ ~view.sliced
    /\ LET run == view.runs[2]
       IN /\ Len(run.out) = 3
          /\ IsNone(run.elements[1]) /\ HasPoints(run.elements[2]) /\ IsEmpty(run.elements[3])
          /\ IsEmpty(run.out[1]) /\ HasPoints(run.out[2]) /\ IsNone(run.out[3])

\* the axis sequence a rotation_order names
AxesNamed(order) ==
    CASE order = "xyz" -> <<"x", "y", "z">>
      [] order = "xzy" -> <<"x", "z", "y">>
      [] order = "yxz" -> <<"y", "x", "z">>
      [] order = "yzx" -> <<"y", "z", "x">>
      [] order = "zxy" -> <<"z", "x", "y">>
      [] OTHER -> <<"z", "y", "x">>

\* C23: a list that ranks by the Euler rotation turns about the axes in the
\* order the scene's rotation_order names, for each of the six orders, so
\* that scenes with different rotation_order use different axis sequences.
C23_RotationOrderHonoured ==
    (view.cls # "ZOrderList" /\ view.pc \in {"iterated", "compared"}) =>
        /\ euler_axes(view.l.scene) = AxesNamed(view.l.scene.rotation_order)
        /\ \A other \in RotationOrders :
              other # view.l.scene.rotation_order =>
                 euler_axes([view.l.scene EXCEPT !.rotation_order = other])
                    # euler_axes(view.l.scene)

-----------------------------------------------------------------------------
(* Claims about the audio import *)

\* C24: a load_wav_file call on a readable file whose sample data type is
\* not supported ends with an error that reaches the caller, and returns
\* no value: neither a converted array nor a sentinel.
C24_UnsupportedDtypeRaises ==
    (imp.pc = "done" /\ imp.file.readable
        /\ imp.file.dtype \notin {"int16", "int32", "uint8", "float32", "float64"}) =>
        /\ imp.exc # "none"
        /\ imp.val = NoValue

-----------------------------------------------------------------------------
(* Claims about the draw helpers *)

\* C25: a construction helper called while construct is false makes no
\* cairo call and leaves the graphics state (dash, source, line width,
\* matrix), the current path, the saved states and the surface as they were.
C25_NoConstructNoDrawing ==
    (cr.fn # "none" /\ ~cr.before.construct) =>
        /\ cr.c.calls = cr.before.calls
        /\ cr.c.gstate = cr.before.gstate
        /\ cr.c.path = cr.before.path
        /\ cr.c.saved = cr.before.saved
        /\ cr.c.surface = cr.before.surface

\* the Bezier helper was called with construct false and debug true on a
\* context with a dash pattern, a pending path and a saved state
C25_Witness ==
    /\ cr.fn = "draw_construction_bezier"
    /\ ~cr.before.construct
    /\ cr.before.debug
    /\ cr.c.gstate.dash # <<>>
    /\ cr.c.path # <<>>
    /\ cr.c.saved # <<>>

\* C26: every turn of the frame loop (frames, one_frame, one_frame2) runs, in
\* this order: push a save point, paint the background, yield to the caller,
\* pop the save point, dispatch the frame.  While the generator is suspended
\* at its yield the turn's frame has not been dispatched; after every
\* completed turn the depth of the save-point stack is the depth before it.
C26_FrameCycleOrder ==
    /\ gen.pc = "yielded" =>
          /\ gen.cycle = <<"save", "paint_background", "yield">>
          /\ anim.depth = gen.depth0 + 1
          /\ gen.dispatched = Len(gen.yielded) - 1
    /\ gen.last # NoCycle =>
          /\ gen.last.log = <<"save", "paint_background", "yield",
                              "restore", "save_frame">>
          /\ gen.last.d1 = gen.last.d0
    /\ gen.pc = "done" =>
          /\ gen.dispatched = Len(gen.yielded)
          /\ gen.n > 0 => gen.last # NoCycle /\ anim.depth = gen.depth0

C26_Witness ==
    /\ gen.fn = "frames" /\ gen.pc = "yielded"
    /\ Len(gen.yielded) = 2
    /\ gen.last # NoCycle
    /\ anim.surface # Black

C26_WitnessOneFrame2 ==
    gen.fn = "one_frame2" /\ gen.pc = "done" /\ gen.last # NoCycle
\* C27: in every pass of render_frames and render_elements the steps are the
\* entries of the collection as it was at the start of the pass, each once
\* and in collection order, whatever entries reported completion on the way:
\* all of them when no step raised, and those up to the raising step when one
\* did (the failure ends the pass).
C27_EachEntrySteppedOnceInOrder ==
    rh.pass > 0 =>
        LET list == rh.last.list
            log == rh.last.log
            raised == {i \in 1..Len(log) : log[i].res = "Error"}
        IN  /\ Len(log) <= Len(list)
            /\ \A i \in 1..Len(log) : log[i].e = list[i]
            /\ raised \subseteq {Len(log)}
            /\ raised = {} => Len(log) = Len(list)

\* reached: in a pass over two different elements the first completed and
\* the second was stepped all the same, and only the second is left
C27_Witness ==
    /\ rh.last.list = <<1, 2>>
    /\ Len(rh.last.log) = 2
    /\ rh.last.log[1].res = "StopIteration"
    /\ rh.last.log[2].res = "yield"
    /\ elements = <<2>>
\* C28: on a session with a cursor, render_frames sets current_frame to
\* start + i in frame i, and when it has returned the cursor is start plus
\* the number of frames of the call, floor(length * fps), zero included; so
\* when every call has returned the cursor is the number of frames the calls
\* dispatched.
C28_CursorAdvancesByFramesRendered ==
    (rf.fn = "render_frames" /\ HasCursor(anim.kind)) =>
        /\ (rf.pc = "loop" /\ rf.frame > 0) =>
              anim.current_frame = rf.start_frame + rf.frame - 1
        /\ rf.pc = "returned" =>
              /\ anim.current_frame = rf.start_frame + rf.n
              /\ rf.val = anim.current_frame
              /\ (\A c \in 1..Len(rh.calls) :
                      rh.calls[c].fn = "render_frames"
                      /\ rh.calls[c].outcome = "returned") =>
                    anim.current_frame = Len(written)
\* C29: the proxy never blocks forever on the encoder: a write that blocks
\* eventually returns, and a wait for the encoder's exit eventually returns,
\* whatever diagnostics the encoder emits.
C29_NeverBlocksForever ==
    /\ (enc.pc = "write") ~> (enc.pc = "idle")
    /\ (enc.pc = "wait" /\ enc.then = "return") ~> (enc.pc = "idle" /\ ~enc.running)
\* C30: a session opened without an events list starts with an empty queue,
\* and a stop at its first frame comes from a quit event that frame's poll
\* delivered, never from an event of an earlier session.
C30_FreshQueuePerSession ==
    (sess.cm \in Interactives /\ sess.pc # "out" /\ ~dflt.explicit) =>
        /\ dflt.at_open = <<>>
        /\ (sess.frames = 1 /\ sess.exc = "StopInteractive") =>
              "QUIT" \in Range(dflt.polled)
====
